---- MODULE Spec2Model ----
(***************************************************************************)
(* Model of the processing core of bot.py: the FIFO work queue             *)
(* (task_queue), the single-flight dispatcher loop (dispatcher), the       *)
(* per-item pipeline (process_one) with its concurrency semaphore, the     *)
(* metadata rewriter (apply_metadata) and the queue-clearing commands      *)
(* (cmd_clear, the clear_confirm callback).                                *)
(*                                                                         *)
(* The program is a single-threaded asyncio program: code between two      *)
(* awaits runs atomically, so every action below is the code that runs     *)
(* from one await to the next.  The outcome of an awaited external call    *)
(* (it returns, or it raises) is an input of the action that resumes.      *)
(***************************************************************************)
EXTENDS Integers, Sequences, FiniteSets, TLC

(* ---------------- program constants ---------------- *)
CONCURRENCY == 5

(* line 350: the 0.5 s between two progress edits, in quarters of a second *)
THROTTLE == 2

(* ---------------- bounds of the model ---------------- *)
MaxItems == 1
MaxFloods == 3
SlotItems == 2
NominalItems == 2
MaxQueued == 3
MaxNamed == 3
MaxTemplateLen == 5
MaxNameLen == 2
MaxDays == 2
MaxCalls == 4
MaxClock == 5
BurstSize == CONCURRENCY + 3

(* user ids, abstracted to small numbers: ADMIN_ID is the one member of
   admin_list, user 2 is a plain user *)
ADMIN_ID == 1
Users == {1, 2}

MaxOf(a, b) == IF a >= b THEN a ELSE b
Items == 1 .. MaxOf(MaxOf(MaxOf(MaxItems, MaxQueued), MaxOf(SlotItems, BurstSize)),
                    MaxOf(NominalItems, MaxNamed))
Days == 1 .. MaxDays

(* ---------------- strings ---------------- *)
(* a Python str is a sequence of one-character strings *)
Digit == {"0", "1", "2", "3", "4", "5", "6", "7", "8", "9"}
Whitespace == {" ", "\t", "\n", "\r", "\f"}
UpperCase == <<"A", "B", "C", "D", "E", "F", "G", "H", "I", "J", "K", "L", "M",
               "N", "O", "P", "Q", "R", "S", "T", "U", "V", "W", "X", "Y", "Z">>
LowerCase == <<"a", "b", "c", "d", "e", "f", "g", "h", "i", "j", "k", "l", "m",
               "n", "o", "p", "q", "r", "s", "t", "u", "v", "w", "x", "y", "z">>

(* str.lower *)
lower(s) ==
    [k \in 1 .. Len(s) |->
        IF \E n \in 1 .. 26 : UpperCase[n] = s[k]
           THEN LowerCase[CHOOSE n \in 1 .. 26 : UpperCase[n] = s[k]]
           ELSE s[k]]

(* str.endswith *)
endswith(s, suffix) ==
    /\ Len(suffix) <= Len(s)
    /\ SubSeq(s, Len(s) - Len(suffix) + 1, Len(s)) = suffix

(* s[i:] starts with w (i is 1-based) *)
startswith_at(s, i, w) ==
    /\ i + Len(w) - 1 <= Len(s)
    /\ SubSeq(s, i, i + Len(w) - 1) = w

(* str.rfind, 1-based; 0 when c does not occur *)
rfind(s, c) ==
    IF \E k \in 1 .. Len(s) : s[k] = c
       THEN CHOOSE k \in 1 .. Len(s) :
                s[k] = c /\ \A j \in (k + 1) .. Len(s) : s[j] # c
       ELSE 0

(* str.find, 1-based, from position i; 0 when no character of cs occurs *)
find_any(s, i, cs) ==
    IF \E k \in i .. Len(s) : s[k] \in cs
       THEN CHOOSE k \in i .. Len(s) :
                s[k] \in cs /\ \A j \in i .. (k - 1) : s[j] \notin cs
       ELSE 0

(* the end of the longest run of characters of cs that starts at i
   (i - 1 when s[i] is not in cs): what a greedy repetition consumes *)
run_end(s, i, cs) ==
    LET stop == IF \E k \in i .. Len(s) : s[k] \notin cs
                   THEN CHOOSE k \in i .. Len(s) :
                            s[k] \notin cs /\ \A j \in i .. (k - 1) : s[j] \in cs
                   ELSE Len(s) + 1
    IN  stop - 1

(* str.strip *)
strip(s) ==
    IF \A k \in 1 .. Len(s) : s[k] \in Whitespace
       THEN <<>>
       ELSE LET a == CHOOSE k \in 1 .. Len(s) :
                         s[k] \notin Whitespace
                         /\ \A j \in 1 .. (k - 1) : s[j] \in Whitespace
                b == CHOOSE k \in 1 .. Len(s) :
                         s[k] \notin Whitespace
                         /\ \A j \in (k + 1) .. Len(s) : s[j] \in Whitespace
            IN  SubSeq(s, a, b)

(* str(n) for a natural number n *)
RECURSIVE str_int(_)
str_int(n) ==
    LET d == <<"0", "1", "2", "3", "4", "5", "6", "7", "8", "9">>[(n % 10) + 1]
    IN  IF n < 10 THEN <<d>> ELSE Append(str_int(n \div 10), d)

(* ---------------- pathlib ---------------- *)
(* Path(s).name: the last component, "." components and empty components
   dropped *)
RECURSIVE path_name(_)
path_name(s) ==
    IF s = <<>> THEN <<>>
    ELSE IF s[Len(s)] = "/" THEN path_name(SubSeq(s, 1, Len(s) - 1))
    ELSE LET k == rfind(s, "/")
             comp == SubSeq(s, k + 1, Len(s))
         IN  IF comp = <<".">> THEN path_name(SubSeq(s, 1, k)) ELSE comp

(* Path(s).suffix *)
path_suffix(s) ==
    LET name == path_name(s)
        i == rfind(name, ".")
    IN  IF 1 < i /\ i < Len(name) THEN SubSeq(name, i, Len(name)) ELSE <<>>

(* Path(s).stem *)
path_stem(s) ==
    LET name == path_name(s)
        i == rfind(name, ".")
    IN  IF 1 < i /\ i < Len(name) THEN SubSeq(name, 1, i - 1) ELSE name

(* ---------------- sanitize_filename ---------------- *)
Illegal == {"\\", "/", ":", "*", "?", "\"", "<", ">", "|", "\n", "\r"}

(* line 167, re.sub: every run of illegal characters becomes one space *)
RECURSIVE sub_illegal(_)
sub_illegal(s) ==
    IF s = <<>> THEN <<>>
    ELSE IF s[1] \in Illegal
            THEN <<" ">> \o sub_illegal(SubSeq(s, run_end(s, 1, Illegal) + 1,
                                               Len(s)))
            ELSE <<s[1]>> \o sub_illegal(Tail(s))

(* line 165-167 *)
sanitize_filename(name) == strip(sub_illegal(name))

(* ---------------- extract_variables_from_filename ---------------- *)
NoMatch == [found |-> FALSE, group |-> <<>>]
Match(g) == [found |-> TRUE, group |-> g]

(* re.search: the match at the leftmost position where at(i) matches *)
search(s, at(_)) ==
    IF \E i \in 1 .. Len(s) : at(i).found
       THEN at(CHOOSE i \in 1 .. Len(s) :
                   at(i).found /\ \A j \in 1 .. (i - 1) : ~at(j).found)
       ELSE NoMatch

(* the season and episode patterns at position i: one of letters, then
   optionally word and white space, then the digits that are captured *)
numbered_at(s, i, letters, word) ==
    IF s[i] \notin letters THEN NoMatch
    ELSE LET a == IF startswith_at(s, i + 1, word)
                     THEN run_end(s, i + 1 + Len(word), Whitespace) + 1
                     ELSE i + 1
             da == run_end(s, a, Digit)
             db == run_end(s, i + 1, Digit)
         IN  IF da >= a THEN Match(SubSeq(s, a, da))
             ELSE IF db >= i + 1 THEN Match(SubSeq(s, i + 1, db))
             ELSE NoMatch

(* line 212: S or s, optionally "eason" and white space, digits *)
season_at(s, i) == numbered_at(s, i, {"S", "s"}, <<"e", "a", "s", "o", "n">>)

(* line 217: E or e, optionally "pisode" and white space, digits *)
episode_at(s, i) ==
    numbered_at(s, i, {"E", "e"}, <<"p", "i", "s", "o", "d", "e">>)

(* quality_at with the whole match (group 0) in place of the captured
   group: the brackets are part of the quality *)
quality_at_whole(s, i) ==
    LET a == IF s[i] = "[" THEN i + 1 ELSE i
        d == run_end(s, a, Digit)
        z == IF d + 2 <= Len(s) /\ s[d + 2] = "]" THEN d + 2 ELSE d + 1
    IN  IF d >= a /\ d + 1 <= Len(s) /\ s[d + 1] = "p"
           THEN Match(SubSeq(s, i, z))
           ELSE NoMatch

(* line 222: an optional "[", then the captured digits and "p" *)
quality_at(s, i) ==
    LET a == IF s[i] = "[" THEN i + 1 ELSE i
        d == run_end(s, a, Digit)
    IN  IF d >= a /\ d + 1 <= Len(s) /\ s[d + 1] = "p"
           THEN Match(SubSeq(s, a, d + 1))
           ELSE NoMatch

(* line 227: C or c, "hapter" or "h", white space, digits *)
chapter_at(s, i) ==
    IF s[i] \notin {"C", "c"} THEN NoMatch
    ELSE LET a == IF startswith_at(s, i + 1, <<"h", "a", "p", "t", "e", "r">>)
                     THEN run_end(s, i + 7, Whitespace) + 1
                     ELSE IF startswith_at(s, i + 1, <<"h">>)
                             THEN run_end(s, i + 2, Whitespace) + 1
                             ELSE 0
             d == run_end(s, a, Digit)
         IN  IF a > 0 /\ d >= a THEN Match(SubSeq(s, a, d)) ELSE NoMatch

(* line 232: the shortest non-empty prefix of
   characters other than "[" and "S" that is followed by a season mark, by a
   bracket or by the end of the string *)
title_match(s) ==
    LET follows(k) ==
            LET j == run_end(s, k + 1, Whitespace) + 1
            IN  \/ j + 1 <= Len(s) /\ s[j] \in {"S", "s"} /\ s[j + 1] \in Digit
                \/ j <= Len(s) /\ s[j] = "["
                \/ k = Len(s)
                \/ k + 1 = Len(s) /\ s[k + 1] = "\n"
        ok(k) == (\A j \in 1 .. k : s[j] \notin {"[", "S"}) /\ follows(k)
    IN  IF \E k \in 1 .. Len(s) : ok(k)
           THEN Match(SubSeq(s, 1, CHOOSE k \in 1 .. Len(s) :
                                       ok(k) /\ \A j \in 1 .. (k - 1) : ~ok(j)))
           ELSE NoMatch

(* line 236: a trailing "-" or "_" of the stripped title is dropped
   together with the white space before it *)
drop_separator(title) ==
    IF title # <<>> /\ title[Len(title)] \in {"-", "_"}
       THEN LET t == SubSeq(title, 1, Len(title) - 1)
            IN  IF \A k \in 1 .. Len(t) : t[k] \in Whitespace THEN <<>>
                ELSE SubSeq(t, 1, CHOOSE k \in 1 .. Len(t) :
                                t[k] \notin Whitespace
                                /\ \A j \in (k + 1) .. Len(t) : t[j] \in Whitespace)
       ELSE title

K_filename == <<"f", "i", "l", "e", "n", "a", "m", "e">>
K_season == <<"s", "e", "a", "s", "o", "n">>
K_episode == <<"e", "p", "i", "s", "o", "d", "e">>
K_quality == <<"q", "u", "a", "l", "i", "t", "y">>
K_chapter == <<"c", "h", "a", "p", "t", "e", "r">>
K_title == <<"t", "i", "t", "l", "e">>

(* a dict with the entry key: value when present holds, the empty dict
   otherwise *)
entry(present, key, value) ==
    IF present THEN (key :> value) ELSE [k \in {} |-> <<>>]

(* lines 199-240 *)
extract_variables_from_filename(filename) ==
    IF filename = <<>> THEN [k \in {} |-> <<>>]
    ELSE LET name == path_stem(filename)
             season_match == search(name, LAMBDA i : season_at(name, i))
             episode_match == search(name, LAMBDA i : episode_at(name, i))
             quality_match == search(name, LAMBDA i : quality_at(name, i))
             chapter_match == search(name, LAMBDA i : chapter_at(name, i))
             title_m == title_match(name)
             title == drop_separator(strip(title_m.group))
         IN  entry(season_match.found, K_season, season_match.group)
             @@ entry(episode_match.found, K_episode, episode_match.group)
             @@ entry(quality_match.found, K_quality, quality_match.group)
             @@ entry(chapter_match.found, K_chapter, chapter_match.group)
             @@ entry(title_m.found /\ title # <<>>, K_title, title)

(* ---------------- str.format_map ---------------- *)
Raised(e) == [exc |-> e, text |-> <<>>]
Returned(t) == [exc |-> "none", text |-> t]

(* SafeDict (lines 244-246): a missing key reads as the empty string *)
SafeDict(d, key) == IF key \in DOMAIN d THEN d[key] ELSE <<>>

(* the attribute lookups of a replacement field, rest being what follows
   the first name: every ".name" is a getattr on a str, which has no
   attribute of that name (the names of the str methods are not used);
   an empty name is refused first *)
attribute_error(rest) ==
    LET stop == find_any(rest, 2, {"."})
        attr == SubSeq(rest, 2, IF stop = 0 THEN Len(rest) ELSE stop - 1)
    IN  IF attr = <<>> THEN "ValueError" ELSE "AttributeError"

(* one replacement field {field_name}, without conversion (!), format
   specification (:) or index ([): the value it is replaced by *)
get_field(field_name, d) ==
    LET dot == find_any(field_name, 1, {"."})
        first == IF dot = 0 THEN field_name
                 ELSE SubSeq(field_name, 1, dot - 1)
    IN  IF \A k \in 1 .. Len(first) : first[k] \in Digit
           THEN Raised("ValueError")
        ELSE IF dot # 0
           THEN Raised(attribute_error(SubSeq(field_name, dot, Len(field_name))))
        ELSE Returned(SafeDict(d, first))

(* fmt[i:] is formatted and appended to out, left to right as the format
   parser does: "{{" and "}}" are braces, a single "}" or an unclosed "{"
   is a ValueError *)
RECURSIVE format_from(_, _, _, _)
format_from(fmt, i, d, out) ==
    IF i > Len(fmt) THEN Returned(out)
    ELSE IF fmt[i] = "}"
        THEN IF i < Len(fmt) /\ fmt[i + 1] = "}"
                THEN format_from(fmt, i + 2, d, Append(out, "}"))
                ELSE Raised("ValueError")
    ELSE IF fmt[i] = "{"
        THEN IF i < Len(fmt) /\ fmt[i + 1] = "{"
                THEN format_from(fmt, i + 2, d, Append(out, "{"))
                ELSE LET j == find_any(fmt, i + 1, {"{", "}"})
                     IN  IF j = 0 \/ fmt[j] = "{" THEN Raised("ValueError")
                         ELSE LET v == get_field(SubSeq(fmt, i + 1, j - 1), d)
                              IN  IF v.exc # "none" THEN v
                                  ELSE format_from(fmt, j + 1, d, out \o v.text)
    ELSE format_from(fmt, i + 1, d, Append(out, fmt[i]))

format_map(fmt, d) == format_from(fmt, 1, d, <<>>)

(* render_filename with a case-sensitive test of the extension *)
render_filename_cased(fmt, base_vars, ext) ==
    LET formatted == format_map(fmt, base_vars)
        sanitized == sanitize_filename(formatted.text)
        core == IF sanitized = <<>> THEN <<"f", "i", "l", "e">> ELSE sanitized
    IN  IF formatted.exc # "none" THEN formatted
        ELSE IF ext # <<>> /\ ~endswith(core, ext)
                THEN Returned(core \o ext)
                ELSE Returned(core)

(* ---------------- render_filename, media_extension ---------------- *)
(* lines 242-255 *)
render_filename(fmt, base_vars, ext) ==
    LET formatted == format_map(fmt, base_vars)
        sanitized == sanitize_filename(formatted.text)
        core == IF sanitized = <<>> THEN <<"f", "i", "l", "e">> ELSE sanitized
    IN  IF formatted.exc # "none" THEN formatted
        ELSE IF ext # <<>> /\ ~endswith(lower(core), lower(ext))
                THEN Returned(core \o ext)
                ELSE Returned(core)

MediaKinds == {"document", "video", "audio", "voice", "animation"}

(* lines 257-268: kind is the media of the message, file_name its file name
   (empty when it has none) *)
media_extension(kind, file_name) ==
    IF file_name # <<>> /\ rfind(file_name, ".") # 0
       THEN <<".">> \o SubSeq(file_name, rfind(file_name, ".") + 1,
                              Len(file_name))
    ELSE IF kind = "video" THEN <<".", "m", "p", "4">>
    ELSE IF kind = "audio" THEN <<".", "m", "p", "3">>
    ELSE IF kind = "animation" THEN <<".", "m", "p", "4">>
    ELSE <<".", "b", "i", "n">>

(* lines 270-274 *)
original_stem(file_name) ==
    IF file_name # <<>> THEN path_stem(file_name) ELSE <<"f", "i", "l", "e">>

(* lines 2043-2062 of process_one with user_mode "file": the name the
   message is to be given *)
new_name_of(fmt, kind, file_name) ==
    LET vars_from_filename == extract_variables_from_filename(file_name)
        stem == original_stem(file_name)
        ext == media_extension(kind, file_name)
        base_vars == vars_from_filename @@ (K_filename :> stem)
    IN  render_filename(fmt, base_vars, ext)

VARIABLES
    limit,               \* how many media messages arrive in this run
    arrived,             \* media messages handled by enqueue_media so far
    owner,               \* m.from_user.id of each message (0: not arrived)
    task_queue,          \* the deque of pending messages
    dispatcher_started,  \* the singleton flag
    dtask,               \* position of the enqueue handler / dispatcher task
                         \* created for each message: none, refused (the
                         \* sender is banned), replying,
                         \* unkicked (the reply raised), created, returned
                         \* (flag found set), yield, launched, grace,
                         \* exited, crashed (IndexError)
    started,             \* messages in the order the dispatcher popped them
    clear_prompt,        \* an admin confirmation keyboard has been shown
    clear_report,        \* "Removed: n" of the last clear (-1: none yet)
    admin_list,
    banned_users,
    semaphore,           \* free permits of asyncio.Semaphore(CONCURRENCY)
    ppc,                 \* position of each message's pipeline
    held,                \* permits held by the (nested) process_one calls
    depth,               \* process_one calls of the message suspended in
                         \* "return await process_one(m)" (line 2078)
    nstatus,             \* status messages created for each message
    nterminal,           \* terminal edits made for each message
    result,              \* what the requester was told: none/success/failed
    user_metadata_enabled, \* chat id -> metadata toggle
    final_file,          \* content at the message's final path in OUTDIR
    meta_out,            \* the sibling meta_<name> output exists
    tag_result,          \* outcome of the metadata step
    user_format,         \* chat id -> filename template
    user_caption_format, \* chat id -> caption template
    sendable,            \* the files users send in this run
    media,               \* kind and file name of each message's media
    new_name,            \* the name rendered for each message (line 2062)
    render_exc,          \* the exception render_filename raised, or "none"
    outdir,              \* the paths that exist in OUTDIR
    final_path,          \* the path each message's file was moved to
    user_stats,          \* user id -> files_renamed
    daily_stats,         \* user id -> date -> files_count
    today,               \* the date datetime.now() gives
    user_dump_channel,   \* chat id -> a dump channel is set
    admin_dump_channel,  \* the global dump channel is set
    dump_task,           \* the send_to_dump_channel tasks created for each
                         \* message: none, running, sent, logged (failed)
    user_media_type,     \* chat id -> "video" or "document"
    user_thumbnail,      \* chat id -> a thumbnail is stored for the chat
    upload_args,         \* caption, kind and thumbnail of each message's
                         \* send_video/send_document call
    now,                 \* what time.perf_counter() returns, in quarters
                         \* of a second
    last_edit,           \* ctx.last_edit of the ProgressCtx of each
                         \* message's current transfer
    progress             \* the progress callbacks of each message's current
                         \* transfer: when, with what, and whether the
                         \* status message was edited

qvars == <<task_queue, dispatcher_started, dtask, started>>
ivars == <<limit, arrived, owner>>
cvars == <<clear_prompt, clear_report>>
avars == <<admin_list, banned_users>>
svars == <<user_metadata_enabled>>
pvars == <<semaphore, ppc, held, depth, nstatus, nterminal, result>>
fvars == <<final_file, meta_out, tag_result>>
tvars == <<user_format, user_caption_format>>
mvars == <<sendable, media>>
nvars == <<new_name, render_exc>>
dvars == <<outdir, final_path>>
stvars == <<user_stats, daily_stats, today>>
uvars == <<user_dump_channel, admin_dump_channel, dump_task>>
kvars == <<user_media_type, user_thumbnail, upload_args>>
gvars == <<now, last_edit, progress>>
xvars == <<tvars, mvars, nvars, dvars, stvars, uvars, kvars, gvars>>
vars == <<qvars, ivars, cvars, avars, svars, pvars, fvars, xvars>>

is_admin(u) == u \in admin_list
is_banned(u) == u \in banned_users

(* m.chat.id: the users write to the bot in one group chat *)
Chats == {1}
chat_id(m) == 1

(* line 47 and line 56: the default templates *)
DefaultFormat == <<"{">> \o K_filename \o <<"}">>
DefaultCaption == <<"{", "f", "i", "l", "e", "_", "n", "a", "m", "e", "}">>

(* a document named "x.m", and the media of a message that has not arrived *)
DefaultMedia == [kind |-> "document", file_name |-> <<"x", ".", "m">>]
NoMedia == [kind |-> "none", file_name |-> <<>>]

(* the two dump fan-outs of a message: to the dump channel of its chat and
   to the global admin dump channel *)
DumpKinds == {"chat", "admin"}

(* upload_args of a message for which no send call has been made *)
NoUpload == [caption |-> <<>>, as |-> "none", thumb |-> FALSE]

(* nothing has been rendered or moved, the stats tables are empty, no dump
   channel is set (lines 59, 74), no thumbnail is stored and the upload kind
   is the default one (lines 49, 52); the clock has run for half a second
   and no transfer has begun *)
Fresh ==
    /\ new_name = [m \in Items |-> <<>>]
    /\ render_exc = [m \in Items |-> "none"]
    /\ outdir = {}
    /\ final_path = [m \in Items |-> <<>>]
    /\ user_stats = [u \in Users |-> 0]
    /\ daily_stats = [u \in Users |-> [d \in Days |-> 0]]
    /\ today = 1
    /\ user_dump_channel = [c \in Chats |-> FALSE]
    /\ admin_dump_channel = FALSE
    /\ dump_task = [m \in Items |-> [k \in DumpKinds |-> "none"]]
    /\ user_media_type = [c \in Chats |-> "document"]
    /\ user_thumbnail = [c \in Chats |-> FALSE]
    /\ upload_args = [m \in Items |-> NoUpload]
    /\ now = THROTTLE
    /\ last_edit = [m \in Items |-> 0]
    /\ progress = [m \in Items |-> <<>>]

(* the settings nobody has changed *)
DefaultSettings ==
    /\ user_format = [c \in Chats |-> DefaultFormat]
    /\ user_caption_format = [c \in Chats |-> DefaultCaption]

(* nothing has arrived; the users will send files out of files *)
Startup(n, files) ==
    /\ limit = n
    /\ arrived = 0
    /\ owner = [m \in Items |-> 0]
    /\ task_queue = <<>>
    /\ dispatcher_started = FALSE
    /\ dtask = [m \in Items |-> "none"]
    /\ started = <<>>
    /\ clear_prompt = FALSE
    /\ clear_report = -1
    /\ admin_list = {ADMIN_ID}
    /\ banned_users = {}
    /\ semaphore = CONCURRENCY
    /\ ppc = [m \in Items |-> "absent"]
    /\ held = [m \in Items |-> 0]
    /\ depth = [m \in Items |-> 0]
    /\ nstatus = [m \in Items |-> 0]
    /\ nterminal = [m \in Items |-> 0]
    /\ result = [m \in Items |-> "none"]
    /\ user_metadata_enabled = [c \in Chats |-> FALSE]
    /\ final_file = [m \in Items |-> "absent"]
    /\ meta_out = [m \in Items |-> FALSE]
    /\ tag_result = [m \in Items |-> "none"]
    /\ sendable = files
    /\ media = [m \in Items |-> NoMedia]
    /\ Fresh

InitWith(n) == Startup(n, {DefaultMedia}) /\ DefaultSettings

Init == InitWith(MaxItems)

(* ---------------- enqueue_media ---------------- *)
(* enqueue_media without the ban check *)
enqueue_media_unchecked(u) ==
    /\ arrived < limit
    /\ LET m == arrived + 1 IN
        /\ arrived' = m
        /\ owner' = [owner EXCEPT ![m] = u]
        /\ \E f \in sendable : media' = [media EXCEPT ![m] = f]
        /\ task_queue' = Append(task_queue, m)
        /\ ppc' = [ppc EXCEPT ![m] = "queued"]
        /\ dtask' = [dtask EXCEPT ![m] = "replying"]
    /\ UNCHANGED <<limit, dispatcher_started, started, cvars, avars, svars,
                   semaphore, held, depth, nstatus, nterminal, result, fvars,
                   sendable, tvars, nvars, dvars, stvars, uvars,
                   kvars, gvars>>

(* lines 1891-1899: a media message of user u arrives.  When u is banned the
   handler answers with the ban notice and returns; otherwise the append
   and the start of the reply *)
enqueue_media(u) ==
    /\ arrived < limit
    /\ LET m == arrived + 1 IN
        /\ arrived' = m
        /\ owner' = [owner EXCEPT ![m] = u]
        /\ \E f \in sendable : media' = [media EXCEPT ![m] = f]
        /\ IF is_banned(u)
              THEN /\ dtask' = [dtask EXCEPT ![m] = "refused"]
                   /\ UNCHANGED <<task_queue, ppc>>
              ELSE /\ task_queue' = Append(task_queue, m)
                   /\ ppc' = [ppc EXCEPT ![m] = "queued"]
                   /\ dtask' = [dtask EXCEPT ![m] = "replying"]
    /\ UNCHANGED <<limit, dispatcher_started, started, cvars, avars, svars,
                   semaphore, held, depth, nstatus, nterminal, result, fvars,
                   sendable, tvars, nvars, dvars, stvars, uvars,
                   kvars, gvars>>

(* lines 1899-1901: the reply returns and the dispatcher is kicked, or the
   reply raises and the handler ends without kicking it *)
enqueue_replied(m, ok) ==
    /\ dtask[m] = "replying"
    /\ dtask' = [dtask EXCEPT ![m] = IF ok THEN "created" ELSE "unkicked"]
    /\ UNCHANGED <<task_queue, dispatcher_started, started, ivars, cvars,
                   avars, svars, pvars, fvars,
                   xvars>>

(* ---------------- dispatcher ---------------- *)
(* dispatcher_enter without the test of the flag *)
dispatcher_enter_unchecked(m) ==
    /\ dtask[m] = "created"
    /\ dispatcher_started' = TRUE
    /\ dtask' = [dtask EXCEPT ![m] =
           IF task_queue # <<>> THEN "yield" ELSE "grace"]
    /\ UNCHANGED <<task_queue, started, ivars, cvars, avars, svars, pvars,
                   fvars,
                   xvars>>

(* lines 2020-2024: the flag test, the flag set and the first loop test *)
dispatcher_enter(m) ==
    /\ dtask[m] = "created"
    /\ IF dispatcher_started
          THEN /\ dtask' = [dtask EXCEPT ![m] = "returned"]
               /\ UNCHANGED dispatcher_started
          ELSE /\ dispatcher_started' = TRUE
               /\ dtask' = [dtask EXCEPT ![m] =
                      IF task_queue # <<>> THEN "yield" ELSE "grace"]
    /\ UNCHANGED <<task_queue, started, ivars, cvars, avars, svars, pvars,
                   fvars,
                   xvars>>

(* dispatcher_pop with pop() in place of popleft(): the newest message *)
dispatcher_pop_right(m) ==
    /\ dtask[m] = "yield"
    /\ IF task_queue = <<>>
          THEN /\ dispatcher_started' = FALSE
               /\ dtask' = [dtask EXCEPT ![m] = "crashed"]
               /\ UNCHANGED <<task_queue, started, ppc>>
          ELSE /\ task_queue' = SubSeq(task_queue, 1, Len(task_queue) - 1)
               /\ started' = Append(started, task_queue[Len(task_queue)])
               /\ ppc' = [ppc EXCEPT ![task_queue[Len(task_queue)]] = "wait"]
               /\ dtask' = [dtask EXCEPT ![m] = "launched"]
               /\ UNCHANGED dispatcher_started
    /\ UNCHANGED <<ivars, cvars, avars, svars, semaphore, held, depth,
                   nstatus, nterminal, result, fvars,
                   xvars>>

(* dispatcher_pop for a loop that launches only up to the available slots:
   it pops when a permit is free *)
dispatcher_pop_gated(m) ==
    /\ dtask[m] = "yield"
    /\ semaphore > 0
    /\ task_queue # <<>>
    /\ task_queue' = Tail(task_queue)
    /\ started' = Append(started, Head(task_queue))
    /\ ppc' = [ppc EXCEPT ![Head(task_queue)] = "wait"]
    /\ dtask' = [dtask EXCEPT ![m] = "launched"]
    /\ UNCHANGED <<dispatcher_started, ivars, cvars, avars, svars, semaphore,
                   held, depth, nstatus, nterminal, result, fvars, xvars>>

(* lines 2026-2030: after the yield, popleft and create_task(process_one);
   popleft on a deque emptied meanwhile raises IndexError, which leaves the
   loop through the finally clause *)
dispatcher_pop(m) ==
    /\ dtask[m] = "yield"
    /\ IF task_queue = <<>>
          THEN /\ dispatcher_started' = FALSE
               /\ dtask' = [dtask EXCEPT ![m] = "crashed"]
               /\ UNCHANGED <<task_queue, started, ppc>>
          ELSE /\ task_queue' = Tail(task_queue)
               /\ started' = Append(started, Head(task_queue))
               /\ ppc' = [ppc EXCEPT ![Head(task_queue)] = "wait"]
               /\ dtask' = [dtask EXCEPT ![m] = "launched"]
               /\ UNCHANGED dispatcher_started
    /\ UNCHANGED <<ivars, cvars, avars, svars, semaphore, held, depth,
                   nstatus, nterminal, result, fvars,
                   xvars>>

(* dispatcher_start_raises for a loop without the finally clause: the flag
   stays set when the exception leaves the loop *)
dispatcher_start_raises_no_finally(m) ==
    /\ dtask[m] = "yield"
    /\ task_queue # <<>>
    /\ task_queue' = Tail(task_queue)
    /\ ppc' = [ppc EXCEPT ![Head(task_queue)] = "unstarted"]
    /\ dtask' = [dtask EXCEPT ![m] = "crashed"]
    /\ UNCHANGED <<dispatcher_started, started, ivars, cvars, avars, svars,
                   semaphore, held, depth, nstatus, nterminal, result, fvars,
                   xvars>>

(* lines 2026-2028 when asyncio.create_task raises: the message has been
   popped, no pipeline is started for it, and the exception leaves the loop
   through the finally clause: there is no except clause in the loop *)
dispatcher_start_raises(m) ==
    /\ dtask[m] = "yield"
    /\ task_queue # <<>>
    /\ task_queue' = Tail(task_queue)
    /\ ppc' = [ppc EXCEPT ![Head(task_queue)] = "unstarted"]
    /\ dispatcher_started' = FALSE
    /\ dtask' = [dtask EXCEPT ![m] = "crashed"]
    /\ UNCHANGED <<started, ivars, cvars, avars, svars, semaphore, held,
                   depth, nstatus, nterminal, result, fvars, xvars>>

(* lines 2030, 2024, 2033: the 0.1s sleep ends and the loop test runs again *)
dispatcher_loop(m) ==
    /\ dtask[m] = "launched"
    /\ dtask' = [dtask EXCEPT ![m] =
           IF task_queue # <<>> THEN "yield" ELSE "grace"]
    /\ UNCHANGED <<task_queue, dispatcher_started, started, ivars, cvars,
                   avars, svars, pvars, fvars,
                   xvars>>

(* lines 2033-2035: the 0.2s wait ends; the flag is cleared *)
dispatcher_exit(m) ==
    /\ dtask[m] = "grace"
    /\ dispatcher_started' = FALSE
    /\ dtask' = [dtask EXCEPT ![m] = "exited"]
    /\ UNCHANGED <<task_queue, started, ivars, cvars, avars, svars, pvars,
                   fvars,
                   xvars>>

(* ---------------- cmd_clear and the clear_confirm callback ---------------- *)
(* filter_loop with appendleft in place of append: the kept messages come
   out in reverse order *)
RECURSIVE filter_loop_appendleft(_, _, _, _)
filter_loop_appendleft(q, u, user_files_removed, remaining_queue) ==
    IF q = <<>>
       THEN <<user_files_removed, remaining_queue>>
       ELSE IF owner[Head(q)] = u
               THEN filter_loop_appendleft(Tail(q), u, user_files_removed + 1,
                                           remaining_queue)
               ELSE filter_loop_appendleft(Tail(q), u, user_files_removed,
                                           <<Head(q)>> \o remaining_queue)

(* lines 1839-1848: the filter loop of the non-admin /clear; q is what is
   left of task_queue, the result is <<user_files_removed, remaining_queue>> *)
RECURSIVE filter_loop(_, _, _, _)
filter_loop(q, u, user_files_removed, remaining_queue) ==
    IF q = <<>>
       THEN <<user_files_removed, remaining_queue>>
       ELSE IF owner[Head(q)] = u
               THEN filter_loop(Tail(q), u, user_files_removed + 1,
                                remaining_queue)
               ELSE filter_loop(Tail(q), u, user_files_removed,
                                Append(remaining_queue, Head(q)))

SeqItems(q) == {q[k] : k \in 1 .. Len(q)}

(* cmd_clear for a filter that works on a snapshot taken before the newest
   append: the rebuilt queue misses the message appended meanwhile *)
cmd_clear_stale(u) ==
    /\ u \in Users
    /\ ~is_admin(u)
    /\ task_queue # <<>>
    /\ LET r == filter_loop(SubSeq(task_queue, 1, Len(task_queue) - 1), u,
                            0, <<>>) IN
       /\ task_queue' = r[2]
       /\ clear_report' = r[1]
       /\ ppc' = [m \in Items |->
              IF m \in SeqItems(SubSeq(task_queue, 1, Len(task_queue) - 1))
                         \ SeqItems(r[2])
                 THEN "cleared" ELSE ppc[m]]
       /\ UNCHANGED clear_prompt
    /\ UNCHANGED <<dispatcher_started, dtask, started, ivars, avars, svars,
                   semaphore, held, depth, nstatus, nterminal, result, fvars,
                   xvars>>

(* lines 1810-1861 *)
cmd_clear(u) ==
    /\ u \in Users
    /\ IF is_admin(u)
          THEN /\ clear_prompt' = (clear_prompt \/ Len(task_queue) # 0)
               /\ UNCHANGED <<task_queue, clear_report, ppc>>
          ELSE LET r == filter_loop(task_queue, u, 0, <<>>) IN
               /\ task_queue' = r[2]
               /\ clear_report' = r[1]
               /\ ppc' = [m \in Items |->
                      IF m \in SeqItems(task_queue) \ SeqItems(r[2])
                         THEN "cleared" ELSE ppc[m]]
               /\ UNCHANGED clear_prompt
    /\ UNCHANGED <<dispatcher_started, dtask, started, ivars, avars, svars,
                   semaphore, held, depth, nstatus, nterminal, result, fvars,
                   xvars>>

(* clear_confirm for a clear that also cancels the pipelines that wait for
   a slot *)
clear_confirm_waiting(u) ==
    /\ u \in Users
    /\ clear_prompt
    /\ is_admin(u)
    /\ clear_report' = Len(task_queue)
    /\ task_queue' = <<>>
    /\ ppc' = [m \in Items |->
           IF m \in SeqItems(task_queue) \/ ppc[m] = "wait"
              THEN "cleared" ELSE ppc[m]]
    /\ UNCHANGED <<dispatcher_started, dtask, started, ivars, clear_prompt,
                   avars, svars, semaphore, held, depth, nstatus, nterminal,
                   result, fvars, xvars>>

(* clear_confirm without the test of the user who clicks *)
clear_confirm_unchecked(u) ==
    /\ u \in Users
    /\ clear_prompt
    /\ clear_report' = Len(task_queue)
    /\ task_queue' = <<>>
    /\ ppc' = [m \in Items |->
           IF m \in SeqItems(task_queue) THEN "cleared" ELSE ppc[m]]
    /\ UNCHANGED <<dispatcher_started, dtask, started, ivars, clear_prompt,
                   avars, svars, semaphore, held, depth, nstatus, nterminal,
                   result, fvars, xvars>>

(* lines 852-867: the "Clear All Queue" button of a confirmation keyboard *)
clear_confirm(u) ==
    /\ u \in Users
    /\ clear_prompt
    /\ IF ~is_admin(u)
          THEN UNCHANGED <<task_queue, clear_report, ppc>>
          ELSE /\ clear_report' = Len(task_queue)
               /\ task_queue' = <<>>
               /\ ppc' = [m \in Items |->
                      IF m \in SeqItems(task_queue) THEN "cleared" ELSE ppc[m]]
    /\ UNCHANGED <<dispatcher_started, dtask, started, ivars, clear_prompt,
                   avars, svars, semaphore, held, depth, nstatus, nterminal,
                   result, fvars,
                   xvars>>

(* ---------------- /ban, /unban, /admins ---------------- *)
(* lines 1530-1575: /ban t sent by u.  Only admins may use it, admins
   cannot be banned, and the user is banned before anything is awaited *)
cmd_ban(u, t) ==
    /\ u \in Users /\ t \in Users
    /\ banned_users' = IF is_admin(u) /\ t \notin admin_list
                           THEN banned_users \cup {t} ELSE banned_users
    /\ UNCHANGED <<qvars, ivars, cvars, admin_list, svars, pvars, fvars,
                   xvars>>

(* lines 1577-1618: /unban t sent by u; only admins may use it *)
cmd_unban(u, t) ==
    /\ u \in Users /\ t \in Users
    /\ banned_users' = IF is_admin(u) THEN banned_users \ {t}
                           ELSE banned_users
    /\ UNCHANGED <<qvars, ivars, cvars, admin_list, svars, pvars, fvars,
                   xvars>>

(* lines 1368-1422: /admins add t and /admins remove t sent by u.  The set
   is changed before get_users is awaited, so a failure of that call leaves
   the change in place *)
cmd_admins(u, action, t) ==
    /\ u \in Users /\ t \in Users
    /\ action \in {"add", "remove"}
    /\ admin_list' =
          IF ~is_admin(u) THEN admin_list
          ELSE IF action = "add" THEN admin_list \cup {t}
          ELSE IF t = ADMIN_ID THEN admin_list
          ELSE admin_list \ {t}
    /\ UNCHANGED <<qvars, ivars, cvars, banned_users, svars, pvars, fvars,
                   xvars>>

(* lines 727-738: the metadata on/off buttons *)
meta_toggle(c, on) ==
    /\ c \in Chats
    /\ user_metadata_enabled[c] # on
    /\ user_metadata_enabled' = [user_metadata_enabled EXCEPT ![c] = on]
    /\ UNCHANGED <<qvars, ivars, cvars, avars, pvars, fvars,
                   xvars>>

(* ---------------- process_one ---------------- *)
InBody == {"reply", "downloading", "cooldown", "renaming", "tagging",
           "uploading", "failing"}

(* release_all with one release too many (an explicit release next to the
   one of the "async with" block) *)
release_all_extra(m) ==
    /\ semaphore' = semaphore + held[m] + 1
    /\ held' = [held EXCEPT ![m] = 0]
    /\ depth' = [depth EXCEPT ![m] = 0]

(* the pipeline of m is over: every nested process_one call leaves its
   "async with semaphore" block, each releasing the permit it holds *)
release_all(m) ==
    /\ semaphore' = semaphore + held[m]
    /\ held' = [held EXCEPT ![m] = 0]
    /\ depth' = [depth EXCEPT ![m] = 0]

(* the pipeline of m goes on: nothing is released or reported *)
going_on == UNCHANGED <<semaphore, held, depth, result, nterminal>>

(* a terminal status.edit_text (line 2080, 2095, 2205 or 2208) returns *)
report(m, res) ==
    /\ result' = [result EXCEPT ![m] = res]
    /\ nterminal' = [nterminal EXCEPT ![m] = @ + 1]
    /\ ppc' = [ppc EXCEPT ![m] = "ended"]
    /\ release_all(m)

(* escape for a semaphore acquired and released by hand, without a
   try/finally around the body: the exception skips the release *)
escape_leak(m) ==
    /\ ppc' = [ppc EXCEPT ![m] = "ended"]
    /\ held' = [held EXCEPT ![m] = 0]
    /\ depth' = [depth EXCEPT ![m] = 0]
    /\ UNCHANGED <<semaphore, result, nterminal>>

(* an exception leaves process_one: nothing is reported *)
escape(m) ==
    /\ ppc' = [ppc EXCEPT ![m] = "ended"]
    /\ release_all(m)
    /\ UNCHANGED <<result, nterminal>>

(* report_failure for a pipeline that reports and keeps its permits *)
report_failure_held(m, editok) ==
    IF editok
       THEN /\ result' = [result EXCEPT ![m] = "failed"]
            /\ nterminal' = [nterminal EXCEPT ![m] = @ + 1]
            /\ ppc' = [ppc EXCEPT ![m] = "ended"]
            /\ UNCHANGED <<semaphore, held, depth>>
       ELSE escape(m)

(* a failure edit: it returns (the failure is reported) or it raises *)
report_failure(m, editok) ==
    IF editok THEN report(m, "failed") ELSE escape(m)

(* enter for a pipeline that renders the name from the template the chat
   had when the bot started: later /format commands are not seen *)
enter_snapshot(m) ==
    LET rendered == new_name_of(DefaultFormat, media[m].kind,
                                media[m].file_name)
    IN  /\ IF rendered.exc = "none"
              THEN /\ semaphore' = semaphore - 1
                   /\ held' = [held EXCEPT ![m] = @ + 1]
                   /\ ppc' = [ppc EXCEPT ![m] = "reply"]
                   /\ new_name' = [new_name EXCEPT ![m] = rendered.text]
                   /\ UNCHANGED <<depth, render_exc>>
              ELSE /\ render_exc' = [render_exc EXCEPT ![m] = rendered.exc]
                   /\ ppc' = [ppc EXCEPT ![m] = "ended"]
                   /\ release_all(m)
                   /\ UNCHANGED new_name
        /\ UNCHANGED <<qvars, ivars, cvars, avars, svars, nstatus, nterminal,
                       result, fvars, tvars, mvars, dvars, stvars, uvars,
                       kvars, gvars>>

(* lines 2039-2066, with a permit just taken: the settings are read and the
   name is rendered; then the status reply is sent, or the exception of
   render_filename leaves process_one through the "async with" blocks *)
enter(m) ==
    LET rendered == new_name_of(user_format[chat_id(m)], media[m].kind,
                                media[m].file_name)
    IN  /\ IF rendered.exc = "none"
              THEN /\ semaphore' = semaphore - 1
                   /\ held' = [held EXCEPT ![m] = @ + 1]
                   /\ ppc' = [ppc EXCEPT ![m] = "reply"]
                   /\ new_name' = [new_name EXCEPT ![m] = rendered.text]
                   /\ UNCHANGED <<depth, render_exc>>
              ELSE /\ render_exc' = [render_exc EXCEPT ![m] = rendered.exc]
                   /\ ppc' = [ppc EXCEPT ![m] = "ended"]
                   /\ release_all(m)
                   /\ UNCHANGED new_name
        /\ UNCHANGED <<qvars, ivars, cvars, avars, svars, nstatus, nterminal,
                       result, fvars, tvars, mvars, dvars, stvars, uvars,
                   kvars, gvars>>

(* acquire without the wait for a free permit *)
acquire_unguarded(m) ==
    /\ ppc[m] = "wait"
    /\ enter(m)

(* lines 2038-2066: "async with semaphore" is entered once a permit is free,
   and the body runs up to the status reply *)
acquire(m) ==
    /\ ppc[m] = "wait"
    /\ semaphore > 0
    /\ enter(m)

(* lines 2071 and 2107: dl_ctx = ProgressCtx(), ul_ctx = ProgressCtx(): the
   transfer that begins has made no edit *)
new_ctx(m) ==
    /\ last_edit' = [last_edit EXCEPT ![m] = 0]
    /\ progress' = [progress EXCEPT ![m] = <<>>]

(* lines 2066-2075: the status reply returns and the download starts, or the
   reply raises (it is outside every try block) *)
status_reply(m, ok) ==
    /\ ppc[m] = "reply"
    /\ IF ok
          THEN /\ nstatus' = [nstatus EXCEPT ![m] = @ + 1]
               /\ ppc' = [ppc EXCEPT ![m] = "downloading"]
               /\ new_ctx(m)
               /\ going_on
          ELSE /\ escape(m)
               /\ UNCHANGED <<nstatus, last_edit, progress>>
    /\ UNCHANGED <<qvars, ivars, cvars, avars, svars, fvars, tvars, mvars,
                   nvars, dvars, stvars, uvars, kvars, now>>

(* lines 2075-2084: download_media returns, raises FloodWait, or raises
   another error *)
download_done(m, out, editok) ==
    /\ ppc[m] = "downloading"
    /\ CASE out = "ok" ->
              /\ ppc' = [ppc EXCEPT ![m] = "renaming"]
              /\ going_on
         [] out = "flood" ->
              /\ depth[m] < MaxFloods
              /\ ppc' = [ppc EXCEPT ![m] = "cooldown"]
              /\ going_on
         [] OTHER -> report_failure(m, editok)
    /\ UNCHANGED <<qvars, ivars, cvars, avars, svars, nstatus,
                   fvars,
                   xvars>>

(* cooldown_over for a restart through the queue: the message is appended
   to task_queue again and its pipeline ends *)
cooldown_over_requeue(m) ==
    /\ ppc[m] = "cooldown"
    /\ task_queue' = Append(task_queue, m)
    /\ ppc' = [ppc EXCEPT ![m] = "queued"]
    /\ release_all(m)
    /\ UNCHANGED <<dispatcher_started, dtask, started, ivars, cvars, avars,
                   svars, nstatus, nterminal, result, fvars, xvars>>

(* cooldown_over for a retry of the download alone, with the permit and the
   status message the pipeline already has *)
cooldown_over_download(m) ==
    /\ ppc[m] = "cooldown"
    /\ ppc' = [ppc EXCEPT ![m] = "downloading"]
    /\ UNCHANGED <<qvars, ivars, cvars, avars, svars, semaphore, held, depth,
                   nstatus, nterminal, result, fvars, xvars>>

(* lines 2077-2078: the cooldown sleep ends and process_one(m) is called
   again from inside the "async with" block of the caller *)
cooldown_over(m) ==
    /\ ppc[m] = "cooldown"
    /\ depth' = [depth EXCEPT ![m] = @ + 1]
    /\ ppc' = [ppc EXCEPT ![m] = "wait"]
    /\ UNCHANGED <<qvars, ivars, cvars, avars, svars, semaphore, held,
                   nstatus, nterminal, result, fvars,
                   xvars>>

(* Path.with_name: the last component of path p is replaced *)
with_name(p, name) == SubSeq(p, 1, rfind(p, "/")) \o name

(* line 2091: the n-th numbered variant "stem (n)suffix" of out_path *)
numbered(out_path, n) ==
    with_name(out_path, path_stem(out_path) \o <<" ", "(">> \o str_int(n)
                        \o <<")">> \o path_suffix(out_path))

(* lines 2089-2092, from the n-th variant on: the first one that does not
   exist in dir *)
RECURSIVE next_free(_, _, _)
next_free(out_path, n, dir) ==
    IF numbered(out_path, n) \notin dir THEN numbered(out_path, n)
    ELSE next_free(out_path, n + 1, dir)

(* free_path without the loop: the desired path, whether it exists or not *)
free_path_overwrite(out_path, dir) == out_path

(* lines 2087-2092: out_path itself when it does not exist *)
free_path(out_path, dir) ==
    IF out_path \notin dir THEN out_path ELSE next_free(out_path, 1, dir)

K_file_name == <<"f", "i", "l", "e", "_", "n", "a", "m", "e">>
K_original_name == <<"o", "r", "i", "g", "i", "n", "a", "l", "_", "n", "a", "m", "e">>
K_extension == <<"e", "x", "t", "e", "n", "s", "i", "o", "n">>
K_file_size == <<"f", "i", "l", "e", "_", "s", "i", "z", "e">>
K_duration == <<"d", "u", "r", "a", "t", "i", "o", "n">>
K_mime_type == <<"m", "i", "m", "e", "_", "t", "y", "p", "e">>

(* lines 276-329: the caption variables; size, duration and MIME type are
   not followed, their texts are the fallback ones *)
extract_file_metadata(file_name, new_filename) ==
    (K_file_name :> path_stem(new_filename))
    @@ (K_original_name :> original_stem(file_name))
    @@ (K_extension :> LET x == path_suffix(new_filename)
                       IN  SubSeq(x, run_end(x, 1, {"."}) + 1, Len(x)))
    @@ (K_file_size :> <<"U", "n", "k", "n", "o", "w", "n">>)
    @@ (K_duration :> <<"N", "/", "A">>)
    @@ (K_mime_type :> <<"U", "n", "k", "n", "o", "w", "n">>)

(* line 2134: the known video extensions *)
VideoSuffixes ==
    {<<".", "m", "p", "4">>, <<".", "m", "k", "v">>, <<".", "a", "v", "i">>,
     <<".", "m", "o", "v">>, <<".", "w", "m", "v">>}

(* send_as for an upload kind that follows the setting alone *)
send_as_setting(media_type, kind, path) ==
    IF media_type = "video" THEN "video" ELSE "document"

(* lines 2132-2167: send_video or send_document; kind is the media of the
   source message (m.video is set for a video message only) *)
send_as(media_type, kind, path) ==
    IF media_type = "video"
       /\ (kind = "video" \/ lower(path_suffix(path)) \in VideoSuffixes)
       THEN "video" ELSE "document"

(* lines 2107-2167: what the upload is called with: the thumbnail of the
   chat, the caption rendered from the caption template (the new name when
   it is blank) and the kind; these reads and the call have no await
   between them *)
upload_call(m, name, path) ==
    LET formatted == format_map(user_caption_format[chat_id(m)],
                         extract_file_metadata(media[m].file_name, name))
    IN  IF formatted.exc # "none" THEN NoUpload
        ELSE [caption |-> IF strip(formatted.text) = <<>> THEN name
                          ELSE formatted.text,
              as |-> send_as(user_media_type[chat_id(m)], media[m].kind, path),
              thumb |-> user_thumbnail[chat_id(m)]]

(* lines 2107-2126: the upload begins with the rendering of the caption;
   when that raises, the except clause (line 2208) edits "Upload failed"
   and nothing is sent *)
upload_start(m, name) ==
    IF format_map(user_caption_format[chat_id(m)],
                  extract_file_metadata(media[m].file_name, name)).exc = "none"
       THEN "uploading" ELSE "failing"

(* lines 2084-2100: the "Renaming" edit returns, the file is moved to its
   final path, and the metadata toggle is read *)
rename_step(m, editok, moveok, failok) ==
    /\ ppc[m] = "renaming"
    /\ IF editok /\ moveok
          THEN /\ final_file' = [final_file EXCEPT ![m] = "renamed"]
               /\ final_path' = [final_path EXCEPT ![m] =
                      free_path(new_name[m], outdir)]
               /\ outdir' = outdir \cup {free_path(new_name[m], outdir)}
               /\ ppc' = [ppc EXCEPT ![m] =
                      IF user_metadata_enabled[chat_id(m)]
                         THEN "tagging" ELSE upload_start(m, new_name[m])]
               /\ upload_args' = [upload_args EXCEPT ![m] =
                      IF user_metadata_enabled[chat_id(m)] THEN @
                      ELSE upload_call(m, new_name[m],
                                       free_path(new_name[m], outdir))]
               /\ IF user_metadata_enabled[chat_id(m)]
                     THEN UNCHANGED <<last_edit, progress>>
                     ELSE new_ctx(m)
               /\ going_on
          ELSE /\ report_failure(m, failok)
               /\ UNCHANGED <<final_file, dvars, upload_args, last_edit,
                              progress>>
    /\ UNCHANGED <<qvars, ivars, cvars, avars, svars, nstatus,
                   meta_out, tag_result, tvars, mvars, nvars, stvars,
                   uvars, user_media_type, user_thumbnail, now>>

(* lines 2221-2259: apply_metadata on the file at the final path.
   subprocess.run blocks, so the whole function runs in one step.  ff is
   what the external tool and the file system do:
     "rc_zero"        the tool returns 0, unlink and rename succeed
     "rc_nonzero"     the tool returns non-zero; the partial output is removed
     "run_raises"     subprocess.run raises (no output is written)
     "unlink_raises"  the tool returns 0, file_path.unlink() raises
     "rename_raises"  the tool returns 0, unlink succeeds, rename raises
   The result is the content at file_path and whether meta_<name> is left *)
ToolOutcomes == {"rc_zero", "rc_nonzero", "run_raises", "unlink_raises",
                 "rename_raises"}

apply_metadata(file, ff) ==
    CASE ff = "rc_zero"       -> [file |-> "tagged", out |-> FALSE]
      [] ff = "rc_nonzero"    -> [file |-> file,     out |-> FALSE]
      [] ff = "run_raises"    -> [file |-> file,     out |-> FALSE]
      [] ff = "unlink_raises" -> [file |-> file,     out |-> TRUE]
      [] OTHER                -> [file |-> "absent", out |-> TRUE]

(* line 2225: the sibling path the tool writes to *)
output_path(file_path) ==
    with_name(file_path, <<"m", "e", "t", "a", "_">> \o path_name(file_path))

(* lines 2243-2253: the paths of OUTDIR after apply_metadata(file_path) *)
apply_metadata_paths(dir, file_path, ff) ==
    CASE ff = "rc_zero"       -> (dir \ {output_path(file_path)}) \cup {file_path}
      [] ff = "rc_nonzero"    -> dir \ {output_path(file_path)}
      [] ff = "run_raises"    -> dir
      [] ff = "unlink_raises" -> dir \cup {output_path(file_path)}
      [] OTHER                -> (dir \ {file_path}) \cup {output_path(file_path)}

(* lines 2100-2113: the "Applying metadata" edit returns and apply_metadata
   runs, or the edit raises and the step is skipped; either way the upload
   is started *)
metadata_step(m, editok, ff) ==
    /\ ppc[m] = "tagging"
    /\ ff \in ToolOutcomes
    /\ IF editok
          THEN LET r == apply_metadata(final_file[m], ff) IN
               /\ final_file' = [final_file EXCEPT ![m] = r.file]
               /\ meta_out' = [meta_out EXCEPT ![m] = r.out]
               /\ outdir' = apply_metadata_paths(outdir, final_path[m], ff)
               /\ tag_result' = [tag_result EXCEPT ![m] =
                      IF ff = "rc_zero" THEN "ok" ELSE "failed"]
          ELSE /\ tag_result' = [tag_result EXCEPT ![m] = "skipped"]
               /\ UNCHANGED <<final_file, meta_out, outdir>>
    /\ ppc' = [ppc EXCEPT ![m] = upload_start(m, new_name[m])]
    /\ upload_args' = [upload_args EXCEPT ![m] =
           upload_call(m, new_name[m], final_path[m])]
    /\ new_ctx(m)
    /\ UNCHANGED <<qvars, ivars, cvars, avars, svars, semaphore, held,
                   depth, nstatus, nterminal, result, final_path, tvars,
                   mvars, nvars, stvars, uvars, user_media_type,
                   user_thumbnail, now>>

(* lines 116-135: one more file for the user, in both tables *)
update_user_stats(user_id) ==
    /\ user_stats' = [user_stats EXCEPT ![user_id] = @ + 1]
    /\ daily_stats' = [daily_stats EXCEPT ![user_id][today] = @ + 1]

(* lines 2190-2203: a task is created for each dump channel that is set *)
fan_out(m) ==
    [k \in DumpKinds |->
        IF \/ k = "chat" /\ user_dump_channel[chat_id(m)]
           \/ k = "admin" /\ admin_dump_channel
           THEN "running" ELSE "none"]

(* lines 2113-2209: send_video/send_document returns or raises (FloodWait
   is caught by "except Exception" like any other error; a missing file
   makes the call raise); then the stats update, the "Done" edit and, in the
   except clause, the "Upload failed" edit *)
upload_done(m, out, statsok, doneok, failok) ==
    /\ ppc[m] = "uploading"
    /\ out \in {"ok", "flood", "error"}
    /\ IF out = "ok" /\ final_path[m] \in outdir
          THEN /\ IF statsok
                     THEN /\ update_user_stats(owner[m])
                          /\ dump_task' = [dump_task EXCEPT ![m] = fan_out(m)]
                     ELSE UNCHANGED <<user_stats, daily_stats, dump_task>>
               /\ IF statsok /\ doneok
                     THEN report(m, "success")
                     ELSE report_failure(m, failok)
          ELSE /\ report_failure(m, failok)
               /\ UNCHANGED <<user_stats, daily_stats, dump_task>>
    /\ UNCHANGED <<qvars, ivars, cvars, avars, svars, nstatus,
                   final_file, meta_out, tag_result, today, tvars, mvars,
                   nvars, dvars, user_dump_channel, admin_dump_channel,
                   kvars, gvars>>

(* send_to_dump_channel for a fan-out whose failure is shown to the
   requester: the status message is edited to a failure *)
send_to_dump_channel_surfaced(m, k, ok) ==
    /\ k \in DumpKinds
    /\ dump_task[m][k] = "running"
    /\ dump_task' = [dump_task EXCEPT ![m][k] = IF ok THEN "sent" ELSE "logged"]
    /\ result' = [result EXCEPT ![m] = IF ok THEN @ ELSE "failed"]
    /\ UNCHANGED <<qvars, ivars, cvars, avars, svars, semaphore, ppc, held,
                   depth, nstatus, nterminal, fvars, tvars, mvars, nvars,
                   dvars, stvars, user_dump_channel, admin_dump_channel,
                   kvars, gvars>>

(* lines 2261-2279: the detached task sends the copy, or the send raises
   and the error is logged *)
send_to_dump_channel(m, k, ok) ==
    /\ k \in DumpKinds
    /\ dump_task[m][k] = "running"
    /\ dump_task' = [dump_task EXCEPT ![m][k] = IF ok THEN "sent" ELSE "logged"]
    /\ UNCHANGED <<qvars, ivars, cvars, avars, svars, pvars, fvars, tvars,
                   mvars, nvars, dvars, stvars, user_dump_channel,
                   admin_dump_channel, kvars, gvars>>

(* lines 1186-1244: /setdump with a channel id; the channel is stored when
   the id parses and the bot may post there *)
cmd_setdump(c, ok) ==
    /\ c \in Chats
    /\ user_dump_channel' = IF ok THEN [user_dump_channel EXCEPT ![c] = TRUE]
                                  ELSE user_dump_channel
    /\ UNCHANGED <<qvars, ivars, cvars, avars, svars, pvars, fvars, tvars,
                   mvars, nvars, dvars, stvars, admin_dump_channel, dump_task,
                   kvars, gvars>>

(* lines 1246-1259 *)
cmd_deldump(c) ==
    /\ c \in Chats
    /\ user_dump_channel' = [user_dump_channel EXCEPT ![c] = FALSE]
    /\ UNCHANGED <<qvars, ivars, cvars, avars, svars, pvars, fvars, tvars,
                   mvars, nvars, dvars, stvars, admin_dump_channel, dump_task,
                   kvars, gvars>>

(* lines 1436-1481: /admindump with a channel id, for admins only *)
cmd_admindump(u, ok) ==
    /\ u \in Users
    /\ admin_dump_channel' = (admin_dump_channel \/ (is_admin(u) /\ ok))
    /\ UNCHANGED <<qvars, ivars, cvars, avars, svars, pvars, fvars, tvars,
                   mvars, nvars, dvars, stvars, user_dump_channel, dump_task,
                   kvars, gvars>>

(* line 2208, after the caption could not be rendered: the "Upload failed"
   edit returns or raises *)
upload_refused(m, failok) ==
    /\ ppc[m] = "failing"
    /\ report_failure(m, failok)
    /\ UNCHANGED <<qvars, ivars, cvars, avars, svars, nstatus, fvars, xvars>>

(* ---------------- /format, /caption, the calendar ---------------- *)
(* lines 969-995; arg is what follows "/format " in the text of the
   command.  Without a pattern the usage text is sent, a pattern of more
   than 200 characters is refused, any other pattern is stored *)
cmd_format(c, arg) ==
    /\ c \in Chats
    /\ LET pattern == strip(arg) IN
       user_format' = IF pattern = <<>> \/ Len(pattern) > 200
                         THEN user_format
                         ELSE [user_format EXCEPT ![c] = pattern]
    /\ UNCHANGED <<qvars, ivars, cvars, avars, svars, pvars, fvars,
                   user_caption_format, mvars, nvars, dvars, stvars, uvars,
                   kvars, gvars>>

(* lines 1024-1053, the same with a limit of 1000 characters *)
cmd_caption(c, arg) ==
    /\ c \in Chats
    /\ LET pattern == strip(arg) IN
       user_caption_format' = IF pattern = <<>> \/ Len(pattern) > 1000
                                 THEN user_caption_format
                                 ELSE [user_caption_format EXCEPT ![c] = pattern]
    /\ UNCHANGED <<qvars, ivars, cvars, avars, svars, pvars, fvars,
                   user_format, mvars, nvars, dvars, stvars, uvars,
                   kvars, gvars>>

(* lines 670-689: the "Video" and "Document" buttons of the media type
   menu *)
media_type_set(c, t) ==
    /\ c \in Chats
    /\ t \in {"video", "document"}
    /\ user_media_type' = [user_media_type EXCEPT ![c] = t]
    /\ UNCHANGED <<qvars, ivars, cvars, avars, svars, pvars, fvars, tvars,
                   mvars, nvars, dvars, stvars, uvars, user_thumbnail,
                   upload_args, gvars>>

(* lines 1863-1878: a photo is sent; when its download returns it is the
   thumbnail of the chat, when it raises nothing is stored *)
set_thumbnail(c, ok) ==
    /\ c \in Chats
    /\ user_thumbnail' = IF ok THEN [user_thumbnail EXCEPT ![c] = TRUE]
                               ELSE user_thumbnail
    /\ UNCHANGED <<qvars, ivars, cvars, avars, svars, pvars, fvars, tvars,
                   mvars, nvars, dvars, stvars, uvars, user_media_type,
                   upload_args, gvars>>

(* lines 957-967: /delpic forgets the thumbnail of the chat *)
cmd_delpic(c) ==
    /\ c \in Chats
    /\ user_thumbnail' = [user_thumbnail EXCEPT ![c] = FALSE]
    /\ UNCHANGED <<qvars, ivars, cvars, avars, svars, pvars, fvars, tvars,
                   mvars, nvars, dvars, stvars, uvars, user_media_type,
                   upload_args, gvars>>

(* update_status with the comparison turned round: a callback that comes
   exactly 0.5 s after the last edit is dropped *)
update_status_late(m, current, total) ==
    /\ ppc[m] \in {"downloading", "uploading"}
    /\ Len(progress[m]) < MaxCalls
    /\ LET edit == ~(now - last_edit[m] <= THROTTLE /\ current # total) IN
        /\ last_edit' = [last_edit EXCEPT ![m] = IF edit THEN now ELSE @]
        /\ progress' = [progress EXCEPT ![m] =
               Append(@, [at |-> now, current |-> current, total |-> total,
                          edited |-> edit])]
    /\ UNCHANGED <<qvars, ivars, cvars, avars, svars, pvars, fvars, tvars,
                   mvars, nvars, dvars, stvars, uvars, kvars, now>>

(* lines 347-375: a progress callback of the transfer of m, download or
   upload, with current bytes done out of total (0 when the size is not
   known).  The callback returns at once, or it stores the time in
   ctx.last_edit and edits the status message; an RPCError of the edit is
   swallowed (lines 374-375) *)
update_status(m, current, total) ==
    /\ ppc[m] \in {"downloading", "uploading"}
    /\ Len(progress[m]) < MaxCalls
    /\ LET edit == ~(now - last_edit[m] < THROTTLE /\ current # total) IN
        /\ last_edit' = [last_edit EXCEPT ![m] = IF edit THEN now ELSE @]
        /\ progress' = [progress EXCEPT ![m] =
               Append(@, [at |-> now, current |-> current, total |-> total,
                          edited |-> edit])]
    /\ UNCHANGED <<qvars, ivars, cvars, avars, svars, pvars, fvars, tvars,
                   mvars, nvars, dvars, stvars, uvars, kvars, now>>

(* time.perf_counter() moves on by a quarter of a second *)
tick ==
    /\ now < MaxClock
    /\ now' = now + 1
    /\ UNCHANGED <<qvars, ivars, cvars, avars, svars, pvars, fvars, tvars,
                   mvars, nvars, dvars, stvars, uvars, kvars, last_edit,
                   progress>>

(* line 120: datetime.now() moves on to the next date *)
midnight ==
    /\ today < MaxDays
    /\ today' = today + 1
    /\ UNCHANGED <<qvars, ivars, cvars, avars, svars, pvars, fvars, tvars,
                   mvars, nvars, dvars, user_stats, daily_stats, uvars,
                   kvars, gvars>>

(* lines 1019-1022: the number /queue reports as pending *)
cmd_queue == Len(task_queue)

(* ---------------- specifications ---------------- *)
QueueNext ==
    \/ \E u \in Users : enqueue_media(u)
    \/ \E m \in Items, ok \in BOOLEAN : enqueue_replied(m, ok)
    \/ \E m \in Items : dispatcher_enter(m)
    \/ \E m \in Items : dispatcher_pop(m)
    \/ \E m \in Items : dispatcher_loop(m)
    \/ \E m \in Items : dispatcher_exit(m)
    \/ \E u \in Users : cmd_clear(u)
    \/ \E u \in Users : clear_confirm(u)

SlotNext ==
    \/ \E m \in Items : acquire(m)
    \/ \E m \in Items, ok \in BOOLEAN : status_reply(m, ok)
    \/ \E m \in Items, out \in {"ok", "flood", "error"}, e \in BOOLEAN :
          download_done(m, out, e)
    \/ \E m \in Items : cooldown_over(m)
    \/ \E m \in Items, e \in BOOLEAN, mv \in BOOLEAN, f \in BOOLEAN :
          rename_step(m, e, mv, f)
    \/ \E m \in Items, out \in {"ok", "flood", "error"}, st \in BOOLEAN,
          d \in BOOLEAN, f \in BOOLEAN : upload_done(m, out, st, d, f)

TagNext ==
    \/ \E m \in Items, e \in BOOLEAN, ff \in ToolOutcomes :
          metadata_step(m, e, ff)
    \/ \E c \in Chats, on \in BOOLEAN : meta_toggle(c, on)

Next == QueueNext \/ SlotNext \/ TagNext

Spec == Init /\ [][Next]_vars

(* the queue, the dispatcher and the clear commands alone: process_one never
   reads or writes task_queue or dispatcher_started, so the popped messages
   are left waiting at the semaphore *)
InitQueue == InitWith(MaxQueued)
SpecQueue == InitQueue /\ [][QueueNext]_vars

(* the state after n media messages arrived together: enqueue_media has
   appended all of them and its replies have returned, the dispatcher task
   of the first message has set the flag and is at its yield (line 2026),
   and the dispatcher tasks of the others have found the flag set and
   returned *)
Burst(n) ==
    /\ limit = n
    /\ arrived = n
    /\ owner = [m \in Items |-> IF m <= n THEN ADMIN_ID ELSE 0]
    /\ task_queue = [k \in 1 .. n |-> k]
    /\ dispatcher_started = TRUE
    /\ dtask = [m \in Items |->
                   IF m = 1 THEN "yield"
                   ELSE IF m <= n THEN "returned" ELSE "none"]
    /\ started = <<>>
    /\ clear_prompt = FALSE
    /\ clear_report = -1
    /\ admin_list = {ADMIN_ID}
    /\ banned_users = {}
    /\ semaphore = CONCURRENCY
    /\ ppc = [m \in Items |-> IF m <= n THEN "queued" ELSE "absent"]
    /\ held = [m \in Items |-> 0]
    /\ depth = [m \in Items |-> 0]
    /\ nstatus = [m \in Items |-> 0]
    /\ nterminal = [m \in Items |-> 0]
    /\ result = [m \in Items |-> "none"]
    /\ user_metadata_enabled = [c \in Chats |-> FALSE]
    /\ final_file = [m \in Items |-> "absent"]
    /\ meta_out = [m \in Items |-> FALSE]
    /\ tag_result = [m \in Items |-> "none"]
    /\ Fresh

InitBurstWith(n) ==
    /\ Burst(n)
    /\ DefaultSettings
    /\ sendable = {DefaultMedia}
    /\ media = [m \in Items |-> IF m <= n THEN DefaultMedia ELSE NoMedia]

DrainNext ==
    \/ \E m \in Items : dispatcher_pop(m)
    \/ \E m \in Items : dispatcher_loop(m)
    \/ \E m \in Items : dispatcher_exit(m)

(* the pipelines and their semaphore after a burst, with every outcome of
   every external call, the metadata toggle left off and no clear command:
   enough restarts to ask for more permits than there are *)
InitSlots == InitBurstWith(SlotItems)
SpecSlots == InitSlots /\ [][DrainNext \/ SlotNext]_vars

(* the burst scenario: CONCURRENCY + 3 messages, every external call
   returns *)
NominalNext ==
    \/ \E m \in Items : acquire(m)
    \/ \E m \in Items : status_reply(m, TRUE)
    \/ \E m \in Items : download_done(m, "ok", TRUE)
    \/ \E m \in Items : rename_step(m, TRUE, TRUE, TRUE)
    \/ \E m \in Items : upload_done(m, "ok", TRUE, TRUE, TRUE)

InitBurst == InitBurstWith(BurstSize)
(* the pipelines of a burst up to the end of their download, which fails:
   a pipeline releases its slot right after the stage it was admitted to *)
BurstNext ==
    \/ \E m \in Items : acquire(m)
    \/ \E m \in Items : status_reply(m, TRUE)
    \/ \E m \in Items : download_done(m, "error", TRUE)

SpecBurst == InitBurst /\ [][DrainNext \/ BurstNext]_vars

(* the whole path of a message, from its arrival to its report, when every
   external call returns and nobody clears the queue *)
ArrivalNext ==
    \/ \E u \in Users : enqueue_media(u)
    \/ \E m \in Items : enqueue_replied(m, TRUE)
    \/ \E m \in Items : dispatcher_enter(m)

InitNominal == InitWith(NominalItems)
SpecNominal == InitNominal /\ [][ArrivalNext \/ DrainNext \/ NominalNext]_vars

(* the rendering of one message's name: the chat has some stored template,
   the message some media kind and file name, and it is first in the queue *)
TemplateChars == {"{", "}", "a", "."}
NameChars == {"x", ".", "?"}

RECURSIVE StringsUpTo(_, _)
StringsUpTo(chars, n) ==
    IF n = 0 THEN {<<>>}
    ELSE LET S == StringsUpTo(chars, n - 1)
         IN  S \cup {Append(t, c) : t \in S, c \in chars}

ScenarioFormat ==
    <<"S", "{", "s", "e", "a", "s", "o", "n", "}", " ", "E", "{",
      "e", "p", "i", "s", "o", "d", "e", "}", " ", "-", " ", "{",
      "t", "i", "t", "l", "e", "}", " ", "[", "{", "q", "u", "a",
      "l", "i", "t", "y", "}", "]">>
ScenarioFile ==
    <<"O", "n", "e", " ", "P", "i", "e", "c", "e", " ", "S", "0",
      "1", "E", "1", "2", " ", "[", "1", "0", "8", "0", "p", "]",
      " ", "[", "D", "u", "a", "l", "]", ".", "m", "k", "v">>

(* cmd_format stores stripped, non-empty patterns only *)
Templates ==
    (StringsUpTo(TemplateChars, MaxTemplateLen) \ {<<>>})
    \cup {ScenarioFormat, DefaultFormat}
RenderFiles ==
    {[kind |-> k, file_name |-> f] :
        k \in {"document", "video"},
        f \in StringsUpTo(NameChars, MaxNameLen) \cup {ScenarioFile}}

InitRender ==
    /\ Burst(1)
    /\ user_format \in [Chats -> Templates]
    /\ user_caption_format = [c \in Chats |-> DefaultCaption]
    /\ sendable = RenderFiles
    /\ \E f \in RenderFiles :
          media = [m \in Items |-> IF m = 1 THEN f ELSE NoMedia]

RenderNext ==
    \/ \E m \in Items : dispatcher_pop(m)
    \/ \E m \in Items : acquire(m)

SpecRender == InitRender /\ [][RenderNext]_vars

(* files that collide: MaxNamed documents arrive together, each named
   "x.m" or "x (1).m", and the default template keeps their names; every
   external call returns *)
NamedFiles ==
    {[kind |-> "document", file_name |-> <<"x", ".", "m">>],
     [kind |-> "document",
      file_name |-> <<"x", " ", "(", "1", ")", ".", "m">>]}

InitNames ==
    /\ Burst(MaxNamed)
    /\ DefaultSettings
    /\ sendable = NamedFiles
    /\ \E f \in [1 .. MaxNamed -> NamedFiles] :
          media = [m \in Items |-> IF m <= MaxNamed THEN f[m] ELSE NoMedia]

SpecNames == InitNames /\ [][DrainNext \/ NominalNext]_vars

(* the templates as users set them: some /format and /caption commands,
   with and without a pattern, well formed and not, short and too long,
   while a message goes through its pipeline and every other external call
   returns *)
Long(n) == [k \in 1 .. n |-> "a"]
FormatArgs == {<<"{">>, <<" ">>, <<"{", "a", "}", " ">>, Long(201)}
CaptionArgs == {<<"{">>, <<"a", "{", "a", "}">>, Long(1001)}

ConfigNext ==
    \/ \E c \in Chats, arg \in FormatArgs : cmd_format(c, arg)
    \/ \E c \in Chats, arg \in CaptionArgs : cmd_caption(c, arg)
    \/ \E m \in Items, f \in BOOLEAN : upload_refused(m, f)

SpecConfig ==
    Init /\ [][ConfigNext \/ ArrivalNext \/ DrainNext \/ NominalNext]_vars

(* the steps of a pipeline after the acquisition of its permit *)
BodyNext ==
    \/ \E m \in Items, ok \in BOOLEAN : status_reply(m, ok)
    \/ \E m \in Items, out \in {"ok", "flood", "error"}, e \in BOOLEAN :
          download_done(m, out, e)
    \/ \E m \in Items : cooldown_over(m)
    \/ \E m \in Items, e \in BOOLEAN, mv \in BOOLEAN, f \in BOOLEAN :
          rename_step(m, e, mv, f)
    \/ \E m \in Items, out \in {"ok", "flood", "error"}, st \in BOOLEAN,
          d \in BOOLEAN, f \in BOOLEAN : upload_done(m, out, st, d, f)

(* what a step of acquire does to the position of a pipeline: it is enabled
   exactly when acquire is, and among the steps of the pipelines only those
   of acquire take a pipeline out of "wait" *)
entered ==
    \E m \in Items :
        /\ ppc[m] = "wait"
        /\ semaphore > 0
        /\ \E to \in {"reply", "ended"} : ppc' = [ppc EXCEPT ![m] = to]

(* the pipelines under the fairness of the event loop: the dispatcher's
   sleeps end, a cooldown sleep ends, an external call returns or raises,
   and a pipeline that waits for a permit gets one when one stays free *)
SpecSlotsLive ==
    /\ InitSlots
    /\ [][DrainNext \/ SlotNext]_vars
    /\ WF_vars(DrainNext)
    /\ WF_vars(BodyNext)
    /\ WF_ppc(entered)

(* the pipelines while the date changes *)
SpecStats == InitSlots /\ [][DrainNext \/ SlotNext \/ midnight]_vars

(* the arrivals and the dispatcher when the start of a pipeline may raise;
   the pipelines themselves are left at the semaphore *)
StartNext ==
    \/ ArrivalNext
    \/ DrainNext
    \/ \E m \in Items : dispatcher_start_raises(m)

SpecStart == InitQueue /\ [][StartNext]_vars

(* the queue, the dispatcher and the clear commands with both exceptions
   that can leave the dispatcher loop: the IndexError of a pop from a queue
   emptied by a clear, and a failing create_task *)
SpecLoop ==
    InitNominal /\ [][QueueNext \/ \E m \in Items : dispatcher_start_raises(m)]_vars

(* the whole path of a message when every external call returns, with the
   clear commands of both kinds *)
SpecClear ==
    InitNominal /\ [][\/ ArrivalNext \/ DrainNext \/ NominalNext
                      \/ \E u \in Users : cmd_clear(u)
                      \/ \E u \in Users : clear_confirm(u)]_vars

(* one message with every outcome of its upload, the dump channels being
   set and unset meanwhile, and the detached fan-out tasks *)
DumpNext ==
    \/ \E c \in Chats, ok \in BOOLEAN : cmd_setdump(c, ok)
    \/ \E c \in Chats : cmd_deldump(c)
    \/ \E u \in Users, ok \in BOOLEAN : cmd_admindump(u, ok)
    \/ \E m \in Items, k \in DumpKinds, ok \in BOOLEAN :
          send_to_dump_channel(m, k, ok)
    \/ \E m \in Items, out \in {"ok", "flood", "error"}, st \in BOOLEAN,
          d \in BOOLEAN, f \in BOOLEAN : upload_done(m, out, st, d, f)

InitDump == InitBurstWith(MaxItems)
SpecDump == InitDump /\ [][DrainNext \/ NominalNext \/ DumpNext]_vars

(* the metadata step next to the files of other messages: TagItems
   documents arrive together, each named "x.m" or "meta_x.m", the default
   template keeps their names, the metadata toggle is switched on and off,
   and the external tool has every outcome *)
TagItems == 2

TagFiles ==
    {[kind |-> "document", file_name |-> <<"x", ".", "m">>],
     [kind |-> "document",
      file_name |-> <<"m", "e", "t", "a", "_", "x", ".", "m">>]}

InitTag ==
    /\ Burst(TagItems)
    /\ DefaultSettings
    /\ sendable = TagFiles
    /\ \E f \in [1 .. TagItems -> TagFiles] :
          media = [m \in Items |-> IF m <= TagItems THEN f[m] ELSE NoMedia]

SpecTag == InitTag /\ [][DrainNext \/ NominalNext \/ TagNext]_vars

(* the settings of a chat change while a message is on its way: a video
   message named "x.m" is in the queue, and the naming template, the caption
   template, the metadata toggle, the upload kind and the thumbnail are set
   and unset at any moment; the templates set are plain texts, and every
   external call but the metadata tool returns *)
SettingArgs == {<<"a">>, <<"b">>}
SettingsMedia == [kind |-> "video", file_name |-> <<"x", ".", "m">>]

SettingsNext ==
    \/ \E c \in Chats, arg \in SettingArgs : cmd_format(c, arg)
    \/ \E c \in Chats, arg \in SettingArgs : cmd_caption(c, arg)
    \/ \E c \in Chats, t \in {"video", "document"} : media_type_set(c, t)
    \/ \E c \in Chats, ok \in BOOLEAN : set_thumbnail(c, ok)
    \/ \E c \in Chats : cmd_delpic(c)
    \/ \E c \in Chats, on \in BOOLEAN : meta_toggle(c, on)
    \/ \E m \in Items, ff \in {"rc_zero", "rc_nonzero"} :
          metadata_step(m, TRUE, ff)

InitSettings ==
    /\ Burst(1)
    /\ DefaultSettings
    /\ sendable = {SettingsMedia}
    /\ media = [m \in Items |-> IF m = 1 THEN SettingsMedia ELSE NoMedia]

SpecSettings ==
    InitSettings /\ [][DrainNext \/ NominalNext \/ SettingsNext]_vars

(* the upload kind: a document, a video or an animation, with one of the five
   video extensions, in lower or upper case, with another extension or
   without a file name, goes through its pipeline while the upload kind of
   the chat is switched; every external call returns *)
KindNames ==
    {<<"x", ".", "m", "p", "4">>, <<"x", ".", "m", "k", "v">>,
     <<"x", ".", "a", "v", "i">>, <<"x", ".", "m", "o", "v">>,
     <<"x", ".", "w", "m", "v">>, <<"x", ".", "M", "P", "4">>,
     <<"x", ".", "m", "p", "3">>, <<"x", ".", "m">>, <<>>}

KindFiles ==
    {[kind |-> k, file_name |-> f] :
        k \in {"document", "video", "animation"}, f \in KindNames}

InitKinds ==
    /\ Burst(MaxItems)
    /\ DefaultSettings
    /\ sendable = KindFiles
    /\ \E f \in [1 .. MaxItems -> KindFiles] :
          media = [m \in Items |-> IF m <= MaxItems THEN f[m] ELSE NoMedia]

KindsNext ==
    \E c \in Chats, t \in {"video", "document"} : media_type_set(c, t)

SpecKinds == InitKinds /\ [][DrainNext \/ NominalNext \/ KindsNext]_vars

(* the progress callbacks of a transfer: while one message is downloaded
   the clock moves on and the transport calls update_status with nothing or
   two bytes done, out of a total of two bytes or of 0 (the size is not
   known); the upload reports through the same function with a context of
   its own *)
Sizes == {0, 2}

ProgressNext ==
    \/ tick
    \/ \E m \in Items, current \in Sizes, total \in Sizes :
          update_status(m, current, total)
    \/ \E m \in Items : acquire(m)
    \/ \E m \in Items : status_reply(m, TRUE)
    \/ \E m \in Items : download_done(m, "ok", TRUE)

InitProgress == InitBurstWith(1)
SpecProgress == InitProgress /\ [][DrainNext \/ ProgressNext]_vars

(* the extension of one message's name: the chat has a template that gives
   a name with or without the extension of the file, in the same or in
   another case, or a name that is empty once sanitized; the file has a name
   with an extension, in lower or upper case, or none *)
ExtTemplates ==
    {<<"a">>, <<"a", ".", "x">>, <<"a", ".", "X">>, <<"a", ".", "x", ".", "x">>,
     <<".", "x">>, <<"{", "a", "}">>, <<"?">>, DefaultFormat}
ExtFiles ==
    {[kind |-> k, file_name |-> f] :
        k \in {"document", "video"},
        f \in {<<"f", ".", "x">>, <<"f", ".", "X">>, <<"f">>, <<>>}}

InitExt ==
    /\ Burst(1)
    /\ user_format \in [Chats -> ExtTemplates]
    /\ user_caption_format = [c \in Chats |-> DefaultCaption]
    /\ sendable = ExtFiles
    /\ \E f \in ExtFiles :
          media = [m \in Items |-> IF m = 1 THEN f ELSE NoMedia]

SpecExt == InitExt /\ [][RenderNext]_vars

(* the queue, the dispatcher and the clear commands while users are made
   admins and removed from the admins *)
AdminsNext ==
    \E u \in Users, t \in Users, action \in {"add", "remove"} :
        cmd_admins(u, action, t)

SpecAccess == InitNominal /\ [][QueueNext \/ AdminsNext]_vars

(* the arrivals and the dispatcher while users are banned and unbanned, made
   admins and removed from the admins *)
AccessNext ==
    \/ \E u \in Users, t \in Users : cmd_ban(u, t)
    \/ \E u \in Users, t \in Users : cmd_unban(u, t)
    \/ AdminsNext

SpecBan == InitNominal /\ [][ArrivalNext \/ DrainNext \/ AccessNext]_vars

(* ---------------- properties ---------------- *)
RECURSIVE SumOver(_, _)
SumOver(S, f) ==
    IF S = {} THEN 0
    ELSE LET x == CHOOSE y \in S : TRUE IN f[x] + SumOver(S \ {x}, f)

(* process_one calls of m that are inside their "async with semaphore"
   block: the suspended callers and, past the acquisition, the current one *)
Inside(m) == depth[m] + (IF ppc[m] \in InBody THEN 1 ELSE 0)
InsideTotal == SumOver(Items, [m \in Items |-> Inside(m)])

Reached == {m \in Items : nstatus[m] > 0}
Ended == {m \in Items : ppc[m] = "ended"}
Waiting == {m \in Items : ppc[m] = "wait"}

(* C1: in every reachable state the number of process_one calls that have
   entered the semaphore block and not yet left it is at most CONCURRENCY *)
C1_SlotLimit == InsideTotal <= CONCURRENCY

(* the limit is reached while another call is waiting for a permit *)
C1_Witness ==
    /\ InsideTotal = CONCURRENCY
    /\ semaphore = 0
    /\ Waiting # {}

(* C8: however the pipelines ended (success, download, rename or upload
   failure, escaping exception), no ended pipeline holds a permit, and
   whenever no process_one call is in progress all CONCURRENCY permits are
   free *)
C8_SlotsReleased ==
    /\ \A m \in Items : ppc[m] = "ended" => held[m] = 0
    /\ (\A m \in Items : Inside(m) = 0) => semaphore = CONCURRENCY

(* every pipeline is over, one by an exception that escaped after its
   status message was created and one with a failure report *)
C8_Witness ==
    /\ \A m \in Items : Inside(m) = 0
    /\ \E m \in Items : ppc[m] = "ended" /\ result[m] = "none" /\ nstatus[m] >= 1
    /\ \E m \in Items : ppc[m] = "ended" /\ result[m] = "failed"
    /\ semaphore = CONCURRENCY

(* C9: with CONCURRENCY = 5 and 8 messages enqueued together, a pipeline
   reaches Downloading beyond the first 5 only after a pipeline has ended and
   released its slot; and when all 8 pipelines are started, none has ended
   and none is on its way to Downloading, exactly 5 have reached it *)
C9_Burst ==
    /\ Cardinality(Reached) <= CONCURRENCY + Cardinality(Ended)
    /\ (/\ Ended = {}
        /\ Len(started) = BurstSize
        /\ \A m \in Items : ppc[m] # "reply"
        /\ (Waiting = {} \/ semaphore = 0))
       => Cardinality(Reached) = CONCURRENCY

(* 5 pipelines are downloading, nothing is released, 3 wait for a slot *)
C9_Witness ==
    /\ Ended = {}
    /\ Cardinality({m \in Items : ppc[m] = "downloading"}) = CONCURRENCY
    /\ Cardinality(Waiting) = BurstSize - CONCURRENCY
    /\ Cardinality(Reached) = CONCURRENCY

LoopPcs == {"yield", "launched", "grace"}
Loops == {m \in Items : dtask[m] \in LoopPcs}

(* C4: after every step at most one dispatcher task is inside the draining
   loop, and a dispatcher() call that finds dispatcher_started set returns
   without setting the flag and without popping anything *)
C4_SingleDispatcher ==
    [][/\ Cardinality({m \in Items : dtask'[m] \in LoopPcs}) <= 1
       /\ \A m \in Items :
            (dispatcher_started /\ dtask[m] = "created"
                                /\ dtask'[m] # "created")
            => /\ dtask'[m] = "returned"
               /\ task_queue' = task_queue
               /\ started' = started]_vars

(* a second dispatcher() call has returned while a loop is draining a
   non-empty queue *)
C4_Witness ==
    /\ task_queue # <<>>
    /\ \E m \in Items, n \in Items :
          dtask[m] \in LoopPcs /\ dtask[n] = "returned"

(* C5: in no reachable state in which every enqueue reply has returned is
   the queue non-empty while no dispatcher loop is running (the flag is
   clear) and no dispatcher() call is about to be made or to run *)
C5_NoStranding ==
    (task_queue # <<>> /\ \A m \in Items : dtask[m] # "unkicked")
    => (dispatcher_started \/ \E m \in Items : dtask[m] \in {"replying", "created"})

Pos(q, x) == CHOOSE k \in 1 .. Len(q) : q[k] = x

(* C6: a /clear of a non-admin user u removes from task_queue exactly the
   messages sent by u, keeps the others in their relative order, and reports
   the number of messages it removed *)
C6_ClearForUser ==
    [][\A u \in Users : (~is_admin(u) /\ cmd_clear(u)) =>
          /\ SeqItems(task_queue') =
                {m \in SeqItems(task_queue) : owner[m] # u}
          /\ Cardinality(SeqItems(task_queue')) = Len(task_queue')
          /\ \A i \in 1 .. Len(task_queue'), j \in 1 .. Len(task_queue') :
                i < j => Pos(task_queue, task_queue'[i])
                           < Pos(task_queue, task_queue'[j])
          /\ clear_report' =
                Cardinality({m \in SeqItems(task_queue) : owner[m] = u})]_vars

(* a non-admin /clear has removed a message and left two others queued *)
C6_Witness ==
    /\ ~clear_prompt
    /\ clear_report >= 1
    /\ Len(task_queue) >= 2
    /\ \E m \in Items : ppc[m] = "cleared" /\ ~is_admin(owner[m])
    /\ \A k \in 1 .. Len(task_queue) : owner[task_queue[k]] = ADMIN_ID

(* C10: the dispatcher pops the messages in the order they were enqueued
   (message ids follow the order of the appends): the popped messages are in
   increasing order, and no message that is still queued was enqueued before
   a popped one *)
C10_Fifo ==
    /\ \A i \in 1 .. Len(started), j \in 1 .. Len(started) :
          i < j => started[i] < started[j]
    /\ \A a \in Items, b \in Items :
          (a < b /\ b \in SeqItems(started) /\ a <= arrived
                 /\ ppc[a] # "cleared")
          => a \in SeqItems(started)

(* two messages were popped, and a clear removed one enqueued between
   them *)
C10_Witness ==
    \E a \in Items, b \in Items, c \in Items :
        /\ a < b /\ b < c
        /\ {a, c} \subseteq SeqItems(started)
        /\ ppc[b] = "cleared"

(* nothing can happen any more unless a user sends something: no handler
   or dispatcher task is waiting to resume, no pipeline is at an await that
   returns or raises, and a pipeline at the semaphore finds no permit *)
Quiescent ==
    \A m \in Items :
        /\ dtask[m] \notin {"replying", "created", "yield", "launched", "grace"}
        /\ ppc[m] \notin InBody
        /\ ppc[m] = "wait" => semaphore = 0

(* C2: no silent drops: when all tasks have run as far as they can, every
   message that was appended to the queue has a terminal status (success or
   failure) reported or was removed by a clear *)
C2_NoSilentDrops ==
    Quiescent =>
        \A m \in Items :
            m <= arrived => (result[m] # "none" \/ ppc[m] = "cleared")

(* C3: for each message exactly one status message is ever created and at
   most one terminal edit is made, and a pipeline that ended with a report
   has created one status message and made one terminal edit, also on a
   path through a rate-limit restart *)
C3_OneStatusMessage ==
    \A m \in Items :
        /\ nstatus[m] <= 1
        /\ nterminal[m] <= 1
        /\ (ppc[m] = "ended" /\ result[m] # "none")
              => (nstatus[m] = 1 /\ nterminal[m] = 1)

(* C7: when the metadata rewrite has failed (the tool returned non-zero or
   an error was thrown inside apply_metadata) the pipeline is at, or past,
   the upload, and while it uploads the pre-rewrite renamed file is at the
   final path *)
C7_TagFailureStillUploads ==
    \A m \in Items :
        tag_result[m] = "failed" =>
            /\ ppc[m] \in {"uploading", "ended"}
            /\ ppc[m] = "uploading" => final_file[m] = "renamed"

(* the variables process_one hands to render_filename for message m
   (lines 2058-2059) *)
base_vars(m) ==
    extract_variables_from_filename(media[m].file_name)
    @@ (K_filename :> original_stem(media[m].file_name))

(* the pipeline of m has called render_filename *)
Rendered(m) == ppc[m] = "reply" \/ render_exc[m] # "none"

(* a replacement field: names separated by dots, none of them empty, the
   first one not a number *)
field_ok(f) ==
    /\ f # <<>>
    /\ f[1] # "." /\ f[Len(f)] # "."
    /\ \A k \in 1 .. (Len(f) - 1) : ~(f[k] = "." /\ f[k + 1] = ".")
    /\ \E k \in 1 .. Len(SubSeq(f, 1, IF find_any(f, 1, {"."}) = 0 THEN Len(f)
                                      ELSE find_any(f, 1, {"."}) - 1)) :
          f[k] \notin Digit

(* fmt[i:] is made of text, doubled braces and replacement fields *)
RECURSIVE well_formed_from(_, _)
well_formed_from(fmt, i) ==
    IF i > Len(fmt) THEN TRUE
    ELSE IF fmt[i] \in {"{", "}"} /\ i < Len(fmt) /\ fmt[i + 1] = fmt[i]
        THEN well_formed_from(fmt, i + 2)
    ELSE IF fmt[i] = "}" THEN FALSE
    ELSE IF fmt[i] = "{"
        THEN LET j == find_any(fmt, i + 1, {"{", "}"})
             IN  /\ j # 0
                 /\ fmt[j] = "}"
                 /\ field_ok(SubSeq(fmt, i + 1, j - 1))
                 /\ well_formed_from(fmt, j + 1)
    ELSE well_formed_from(fmt, i + 1)

well_formed(fmt) == well_formed_from(fmt, 1)

(* the well-formed template fmt[i:] without the replacement fields whose
   name is not in keys *)
RECURSIVE drop_unknown(_, _, _)
drop_unknown(fmt, i, keys) ==
    IF i > Len(fmt) THEN <<>>
    ELSE IF fmt[i] \in {"{", "}"} /\ i < Len(fmt) /\ fmt[i + 1] = fmt[i]
        THEN <<fmt[i], fmt[i]>> \o drop_unknown(fmt, i + 2, keys)
    ELSE IF fmt[i] = "{"
        THEN LET j == find_any(fmt, i + 1, {"}"})
                 f == SubSeq(fmt, i + 1, j - 1)
                 dot == find_any(f, 1, {"."})
                 name == IF dot = 0 THEN f ELSE SubSeq(f, 1, dot - 1)
             IN  (IF name \in keys THEN SubSeq(fmt, i, j) ELSE <<>>)
                 \o drop_unknown(fmt, j + 1, keys)
    ELSE <<fmt[i]>> \o drop_unknown(fmt, i + 1, keys)

(* C11: for every well-formed template and every variable set, rendering
   gives what the template without its placeholders of absent name gives:
   such a placeholder never makes the rendering raise, it is replaced by the
   empty string and nothing of it is left in the result *)
C11_UnknownPlaceholders ==
    \A m \in Items :
        (Rendered(m) /\ well_formed(user_format[chat_id(m)])) =>
            LET known == drop_unknown(user_format[chat_id(m)], 1,
                                      DOMAIN base_vars(m))
                want == render_filename(known, base_vars(m),
                            media_extension(media[m].kind, media[m].file_name))
            IN  /\ render_exc[m] = want.exc
                /\ render_exc[m] = "none" => new_name[m] = want.text

(* C12: the whole name render_filename returns for a message, the appended
   extension included, contains none of the illegal characters *)
C12_NoIllegalCharacters ==
    \A m \in Items :
        ppc[m] = "reply" =>
            \A k \in 1 .. Len(new_name[m]) : new_name[m][k] \notin Illegal

ScenarioName ==
    <<"S", "0", "1", " ", "E", "1", "2", " ", "-", " ", "O", "n",
      "e", " ", "P", "i", "e", "c", "e", " ", "[", "1", "0", "8",
      "0", "p", "]", ".", "m", "k", "v">>

(* C17: for the template "S{season} E{episode} - {title} [{quality}]" and
   the file name "One Piece S01E12 [1080p] [Dual].mkv" the extracted
   variables are season 01, episode 12, quality 1080p and title One Piece,
   with no chapter, and the rendered name is
   "S01 E12 - One Piece [1080p].mkv" *)
C17_Scenario ==
    \A m \in Items :
        (/\ Rendered(m)
         /\ user_format[chat_id(m)] = ScenarioFormat
         /\ media[m].file_name = ScenarioFile) =>
            /\ extract_variables_from_filename(media[m].file_name) =
                   (K_season :> <<"0", "1">>) @@ (K_episode :> <<"1", "2">>)
                   @@ (K_quality :> <<"1", "0", "8", "0", "p">>)
                   @@ (K_title :> <<"O", "n", "e", " ", "P", "i", "e", "c", "e">>)
            /\ media_extension(media[m].kind, media[m].file_name) =
                   <<".", "m", "k", "v">>
            /\ render_exc[m] = "none"
            /\ new_name[m] = ScenarioName

(* the scenario's file has been rendered with the scenario's template *)
C17_Witness ==
    \E m \in Items :
        /\ ppc[m] = "reply"
        /\ user_format[chat_id(m)] = ScenarioFormat
        /\ media[m].file_name = ScenarioFile
        /\ new_name[m] = ScenarioName

(* the messages whose file has been moved to its final path *)
Moved == {m \in Items : final_path[m] # <<>>}

(* the sequence path, "stem (1)ext", "stem (2)ext", ... of a desired path *)
variant(out_path, i) == IF i = 0 THEN out_path ELSE numbered(out_path, i)

(* C13 as amended: the final path of a file is the first path of the
   sequence path, "stem (1)ext", "stem (2)ext", ... that does not exist when
   the file is moved; it is distinct from every final path used before; and
   when all the files moved so far were to get the same desired path, the
   k-th of them gets the k-th path of the sequence *)
C13_FirstFreePath ==
    [][\A m \in Items :
          (final_path[m] = <<>> /\ final_path'[m] # <<>>) =>
              /\ final_path'[m] \notin outdir
              /\ \E i \in 0 .. Cardinality(outdir) :
                    /\ final_path'[m] = variant(new_name[m], i)
                    /\ \A j \in 0 .. (i - 1) : variant(new_name[m], j) \in outdir
              /\ \A n \in Moved : final_path[n] # final_path'[m]
              /\ (\A n \in Moved : new_name[n] = new_name[m]) =>
                    final_path'[m] = variant(new_name[m], Cardinality(Moved))]_vars

(* three files with the same desired path have got the paths "x.m",
   "x (1).m" and "x (2).m" *)
C13_Witness ==
    /\ Cardinality(Moved) >= 3
    /\ \A m \in Moved : new_name[m] = <<"x", ".", "m">>
    /\ {final_path[m] : m \in Moved} =
          {variant(<<"x", ".", "m">>, i) : i \in 0 .. (Cardinality(Moved) - 1)}

(* C13: each final path does not exist before the move and is distinct from
   the earlier ones, and the files that render the same desired path get
   exactly path, "stem (1)ext", "stem (2)ext", ... in the order they are
   moved: the file moved after k others with its desired path gets the k-th
   path of the sequence *)
C13_ExactSequence ==
    [][\A m \in Items :
          (final_path[m] = <<>> /\ final_path'[m] # <<>>) =>
              /\ final_path'[m] \notin outdir
              /\ \A n \in Moved : final_path[n] # final_path'[m]
              /\ final_path'[m] =
                    variant(new_name[m],
                            Cardinality({n \in Moved :
                                            new_name[n] = new_name[m]}))]_vars

(* C14: a malformed template is never stored by /format or /caption, and
   no pipeline renders a template on which the rendering raises, neither for
   the name (render_filename) nor for the caption *)
C14_TemplatesValidated ==
    /\ \A c \in Chats :
          well_formed(user_format[c]) /\ well_formed(user_caption_format[c])
    /\ \A m \in Items : render_exc[m] = "none" /\ ppc[m] # "failing"

(* C15: a rate-limit signal during the download sends the pipeline to the
   cooldown sleep without a report; when the sleep ends the pipeline starts
   again at the acquisition of a slot, still without a failure report,
   whatever the number of restarts it has made; and a pipeline leaves the
   acquisition only with a permit that was free *)
C15_RestartFromQueued ==
    [][\A m \in Items :
          /\ (ppc[m] = "downloading" /\ ppc'[m] = "cooldown") =>
                (result'[m] = "none" /\ nterminal'[m] = nterminal[m])
          /\ (ppc[m] = "cooldown" /\ ppc'[m] # "cooldown") =>
                /\ ppc'[m] = "wait"
                /\ depth'[m] = depth[m] + 1
                /\ result'[m] = "none"
                /\ nterminal'[m] = nterminal[m]
          /\ (ppc[m] = "wait" /\ ppc'[m] # "wait") =>
                /\ semaphore > 0
                /\ ppc'[m] = "reply"
                /\ held'[m] = held[m] + 1]_vars

(* a pipeline has restarted as often as the bound allows, is downloading
   again and has reported nothing *)
C15_Witness ==
    \E m \in Items :
        depth[m] = MaxFloods /\ ppc[m] = "downloading" /\ result[m] = "none"

(* a download, rename/move or upload error in the pipeline of m, the failure
   edit being delivered *)
stage_fatal(m) ==
    \/ download_done(m, "error", TRUE)
    \/ \E e \in BOOLEAN, mv \in BOOLEAN :
          ~(e /\ mv) /\ rename_step(m, e, mv, TRUE)
    \/ \E out \in {"ok", "flood", "error"}, st \in BOOLEAN, d \in BOOLEAN :
          ~(out = "ok" /\ st /\ d) /\ upload_done(m, out, st, d, TRUE)

(* C16: a stage-fatal error in the pipeline of m ends that pipeline with a
   failure reported on its status message and all its permits released; the
   queue, the dispatcher flag and tasks and every other pipeline are left as
   they are; and a pipeline that has ended runs no further stage *)
C16_StageFatal ==
    [][\A m \in Items :
          /\ stage_fatal(m) =>
                /\ ppc'[m] = "ended"
                /\ result'[m] = "failed"
                /\ nterminal'[m] = nterminal[m] + 1
                /\ held'[m] = 0
                /\ semaphore' = semaphore + held[m]
                /\ UNCHANGED <<task_queue, dispatcher_started, dtask, started>>
                /\ \A n \in Items \ {m} :
                      /\ ppc'[n] = ppc[n]
                      /\ held'[n] = held[n]
                      /\ depth'[n] = depth[n]
                      /\ nstatus'[n] = nstatus[n]
                      /\ result'[n] = result[n]
          /\ ppc[m] = "ended" => ppc'[m] = "ended"]_vars

(* one pipeline has failed while another is in the middle of its download *)
C16_Witness ==
    \E m \in Items, n \in Items :
        /\ ppc[m] = "ended" /\ result[m] = "failed" /\ held[m] = 0
        /\ ppc[n] = "downloading" /\ held[n] >= 1

(* C18: a pipeline that holds a permit eventually ends and holds none *)
C18_SlotProgress ==
    \A m \in Items : (held[m] > 0) ~> (ppc[m] = "ended" /\ held[m] = 0)

(* C19: the pipeline of a message never holds more than one permit *)
C19_OnePermit == \A m \in Items : held[m] <= 1

(* C20: the lifetime counter of a user, and the sum of the user's per-day
   counters, is the number of the user's messages that ended with a success
   report: one increment for each of them, none for a message that ended
   with a failure report, none for a restart *)
C20_StatsCountSuccesses ==
    \A u \in Users :
        LET done == Cardinality({m \in Items :
                                    owner[m] = u /\ result[m] = "success"})
        IN  /\ user_stats[u] = done
            /\ SumOver(Days, daily_stats[u]) = done

(* C21: a rate-limit signal raised by the upload transfer sends the pipeline
   to the cooldown sleep, to restart from the acquisition of a slot: nothing
   is reported on the status message and the pipeline does not end *)
C21_UploadFloodRetried ==
    [][\A m \in Items :
          (\E st \in BOOLEAN, d \in BOOLEAN, f \in BOOLEAN :
               upload_done(m, "flood", st, d, f)) =>
              /\ ppc'[m] = "cooldown"
              /\ result'[m] = "none"
              /\ nterminal'[m] = nterminal[m]]_vars

(* C22: when the start of a pipeline raises inside the dispatcher loop, the
   loop goes on: the flag stays set and the dispatcher task is still in the
   loop, about to test the queue again *)
C22_StartFailureIsolated ==
    [][\A m \in Items :
          dispatcher_start_raises(m) =>
              /\ dispatcher_started'
              /\ dtask'[m] \in LoopPcs]_vars

(* C23: every popleft of the dispatcher finds a message in the queue, also
   when a clear ran during the yield between the loop test and the pop *)
C23_PopFindsMessage ==
    [][\A m \in Items : dispatcher_pop(m) => task_queue # <<>>]_vars

(* C24: the flag is set exactly while some dispatcher task is inside the
   loop, whichever way the earlier loops were left; and a dispatcher() call
   that finds the flag clear sets it and enters the loop *)
C24_FlagWhileLoop ==
    /\ dispatcher_started <=> (Loops # {})
    /\ [][/\ dispatcher_started' <=> (\E m \in Items : dtask'[m] \in LoopPcs)
          /\ \A m \in Items :
                (~dispatcher_started /\ dtask[m] = "created"
                                     /\ dtask'[m] # "created")
                => (dispatcher_started' /\ dtask'[m] \in LoopPcs)]_vars

(* one loop was left by an exception and a later enqueue has started a new
   loop, which is draining the queue *)
C24_Witness ==
    /\ dispatcher_started
    /\ task_queue # <<>>
    /\ \E m \in Items, n \in Items :
          dtask[m] = "crashed" /\ dtask[n] \in LoopPcs

(* C25: no message is popped twice (started lists the messages in the order
   of their popleft and create_task), no popped message is in the queue,
   no message is in the queue twice, and the restart after a rate limit
   leaves the queue and the list of started pipelines as they are *)
C25_PoppedOnce ==
    /\ [](/\ \A i \in 1 .. Len(started), j \in 1 .. Len(started) :
                started[i] = started[j] => i = j
          /\ \A i \in 1 .. Len(task_queue), j \in 1 .. Len(task_queue) :
                task_queue[i] = task_queue[j] => i = j
          /\ SeqItems(started) \cap SeqItems(task_queue) = {})
    /\ [][\A m \in Items :
             (ppc[m] = "cooldown" /\ ppc'[m] # "cooldown") =>
                 UNCHANGED <<task_queue, started>>]_vars

(* every message of the burst has been popped and one of them is
   downloading again after a rate-limit restart *)
C25_Witness ==
    /\ task_queue = <<>>
    /\ Len(started) = SlotItems
    /\ \E m \in Items : depth[m] >= 1 /\ ppc[m] = "downloading"

(* C26: the dispatcher's pop and its next loop test can be taken whatever
   the number of free permits and whatever the pipelines are doing; a popped
   message is at the acquisition of a slot, inside its pipeline or ended;
   and /queue counts the messages not yet popped, none of those waiting for
   a slot *)
C26_DrainWithoutSlots ==
    /\ \A m \in Items :
          /\ dtask[m] = "yield" => ENABLED dispatcher_pop(m)
          /\ dtask[m] = "launched" => ENABLED dispatcher_loop(m)
    /\ \A m \in SeqItems(started) : ppc[m] \in {"wait", "ended"} \cup InBody
    /\ cmd_queue = Cardinality({m \in Items : ppc[m] = "queued"})
    /\ Waiting \cap SeqItems(task_queue) = {}

(* the queue has been drained and /queue reports 0 while all permits are
   held and the surplus pipelines wait for one *)
C26_Witness ==
    /\ cmd_queue = 0
    /\ semaphore = 0
    /\ Cardinality({m \in Items : held[m] = 1}) = CONCURRENCY
    /\ Cardinality(Waiting) = BurstSize - CONCURRENCY

(* C27: a /clear or a confirmed clear removes messages of the queue only:
   the queue afterwards is part of the queue before, and for every message
   that is not in the queue (popped and waiting for a slot, in a later
   stage, or ended) the stage, the permits, the status message, the report
   and the files are what they were; no popped message is ever marked
   cleared *)
C27_ClearLeavesPipelines ==
    /\ [](\A m \in SeqItems(started) : ppc[m] # "cleared")
    /\ [][\A u \in Users :
             (cmd_clear(u) \/ clear_confirm(u)) =>
                 /\ SeqItems(task_queue') \subseteq SeqItems(task_queue)
                 /\ \A m \in Items \ SeqItems(task_queue) : ppc'[m] = ppc[m]
                 /\ UNCHANGED <<started, semaphore, held, depth, nstatus,
                                nterminal, result, fvars, nvars, dvars,
                                stvars>>]_vars

(* a clear has removed the later message of a user while the user's earlier
   message, popped before the clear, is being uploaded *)
C27_Witness ==
    \E m \in Items, n \in Items :
        /\ n < m
        /\ owner[m] = owner[n]
        /\ ppc[m] = "cleared"
        /\ ppc[n] = "uploading"

(* C28: every message that arrived is in exactly one place, whatever the
   interleaving of appends, pops and clears: once in the queue, once among
   the popped messages, or removed by a clear; and a clear step removes
   messages of the queue only, keeps the others in their order, counts
   exactly the removed ones in its report and leaves the popped ones alone *)
C28_ClearExclusive ==
    /\ [](/\ \A m \in Items :
                /\ ppc[m] = "queued" <=> m \in SeqItems(task_queue)
                /\ ppc[m] = "wait" <=> m \in SeqItems(started)
                /\ m <= arrived <=> ppc[m] \in {"queued", "wait", "cleared"}
          /\ Cardinality(SeqItems(task_queue)) = Len(task_queue)
          /\ Cardinality(SeqItems(started)) = Len(started))
    /\ [][\A u \in Users :
             (cmd_clear(u) \/ clear_confirm(u)) =>
                 LET removed == SeqItems(task_queue) \ SeqItems(task_queue')
                 IN  /\ SeqItems(task_queue') \subseteq SeqItems(task_queue)
                     /\ \A i \in 1 .. Len(task_queue'),
                           j \in 1 .. Len(task_queue') :
                           i < j => Pos(task_queue, task_queue'[i])
                                      < Pos(task_queue, task_queue'[j])
                     /\ task_queue' # task_queue =>
                           clear_report' = Cardinality(removed)
                     /\ \A m \in removed : ppc'[m] = "cleared"
                     /\ UNCHANGED <<started, arrived>>]_vars

(* a clear has removed a message after one was popped; the dispatcher is at
   its yield before the next pop and an enqueue has just appended a message
   and is at its reply *)
C28_Witness ==
    /\ clear_report >= 1
    /\ started # <<>>
    /\ task_queue # <<>>
    /\ \E m \in Items : dtask[m] = "yield"
    /\ \E n \in Items : dtask[n] = "replying" /\ n \in SeqItems(task_queue)

(* C30: after an apply_metadata that did not succeed (the tool returned
   non-zero or an exception was caught), the file it was given is still at
   its path with its content, and the sibling output meta_<name> does not
   exist *)
C30_MetadataFailureClean ==
    \A m \in Items :
        tag_result[m] = "failed" =>
            /\ final_file[m] = "renamed"
            /\ final_path[m] \in outdir
            /\ ~meta_out[m]
            /\ output_path(final_path[m]) \notin outdir

(* C29: a fan-out task is created only in the step in which the upload of
   its message has succeeded; a step of a fan-out task, whether its send
   returns or raises, changes nothing of any pipeline, of the semaphore, of
   the reports or of the queue; and while a fan-out task of a message exists
   the pipeline of the message has ended and holds no permit *)
C29_FanOutDetached ==
    /\ [](\A m \in Items, k \in DumpKinds :
             dump_task[m][k] # "none" => (ppc[m] = "ended" /\ held[m] = 0))
    /\ [][/\ \A m \in Items, k \in DumpKinds :
               (dump_task[m][k] = "none" /\ dump_task'[m][k] # "none") =>
                   /\ dump_task'[m][k] = "running"
                   /\ final_path[m] \in outdir
                   /\ \E st \in BOOLEAN, d \in BOOLEAN, f \in BOOLEAN :
                         upload_done(m, "ok", st, d, f)
          /\ \A m \in Items, k \in DumpKinds, ok \in BOOLEAN :
               send_to_dump_channel(m, k, ok) =>
                   UNCHANGED <<qvars, pvars, fvars, dvars, stvars>>]_vars

(* the pipeline has ended with a success report and all permits are free
   while one fan-out of the message has failed and the other is running *)
C29_Witness ==
    \E m \in Items :
        /\ result[m] = "success"
        /\ semaphore = CONCURRENCY
        /\ dump_task[m]["chat"] = "logged"
        /\ dump_task[m]["admin"] = "running"

(* C31: a metadata step of one message leaves the file of every other
   message in place: a final path of another message that exists in OUTDIR
   before the step exists after it, whatever the outcome of the tool *)
C31_OthersUntouched ==
    [][\A m \in Items, e \in BOOLEAN, ff \in ToolOutcomes :
          metadata_step(m, e, ff) =>
              \A o \in Items \ {m} :
                  final_path[o] \in outdir => final_path[o] \in outdir']_vars

(* C32: no two messages have had their file moved to the same final path:
   the final paths of the messages moved so far are pairwise distinct *)
C32_DistinctFinalPaths ==
    \A m \in Items, o \in Items :
        (m # o /\ final_path[m] # <<>> /\ final_path[o] # <<>>) =>
            final_path[m] # final_path[o]

(* C33: a stage works with the settings as they are when it reads them, and
   a later change does not touch what the stage has produced.  The name is
   rendered, at the acquisition of the slot, from the naming template the
   chat has then; the metadata step is taken exactly when the toggle is on
   at the end of the rename step; the upload is called with the caption
   template, the upload kind and the thumbnail the chat has when the upload
   starts; and a step that does not move the pipeline of a message changes
   neither its name nor the arguments of its upload *)
C33_LastWriteWins ==
    [][\A m \in Items :
          LET c == chat_id(m) IN
          /\ (ppc[m] = "wait" /\ ppc'[m] = "reply" /\ user_format[c] \in SettingArgs)
                => new_name'[m] = user_format[c] \o <<".", "m">>
          /\ (ppc[m] = "renaming" /\ ppc'[m] \notin {"renaming", "ended"})
                => (ppc'[m] = "tagging" <=> user_metadata_enabled[c])
          /\ (ppc[m] \in {"renaming", "tagging"} /\ ppc'[m] = "uploading")
                => /\ user_caption_format[c] \in SettingArgs
                         => upload_args'[m].caption = user_caption_format[c]
                   /\ upload_args'[m].as = user_media_type[c]
                   /\ upload_args'[m].thumb = user_thumbnail[c]
          /\ ppc'[m] = ppc[m]
                => /\ new_name'[m] = new_name[m]
                   /\ upload_args'[m] = upload_args[m]]_vars

(* the message was in the queue with the default settings; its name, its
   metadata step and its upload have used the settings made since, and every
   one of them has been changed again after it was read *)
C33_Witness ==
    /\ ppc[1] = "uploading"
    /\ new_name[1] = <<"a", ".", "m">>
    /\ user_format[1] = <<"b">>
    /\ tag_result[1] # "none"
    /\ ~user_metadata_enabled[1]
    /\ upload_args[1] = [caption |-> <<"a">>, as |-> "video", thumb |-> TRUE]
    /\ user_caption_format[1] = <<"b">>
    /\ user_media_type[1] = "document"
    /\ ~user_thumbnail[1]

(* C34: when the upload of a message starts, send_video is called if and
   only if the upload kind of the chat is "video" and the source message is
   a video or the extension of the final path, in lower case, is one of
   .mp4 .mkv .avi .mov .wmv; otherwise send_document is called *)
C34_VideoIff ==
    [][\A m \in Items :
          (ppc[m] = "renaming" /\ ppc'[m] = "uploading") =>
              /\ upload_args'[m].as \in {"video", "document"}
              /\ upload_args'[m].as = "video" <=>
                    /\ user_media_type[chat_id(m)] = "video"
                    /\ \/ media[m].kind = "video"
                       \/ lower(path_suffix(final_path'[m])) \in VideoSuffixes]_vars

(* a document named "x.MP4" is being sent as a video *)
C34_Witness ==
    /\ ppc[1] = "uploading"
    /\ media[1].kind = "document"
    /\ final_path[1] = <<"x", ".", "M", "P", "4">>
    /\ upload_args[1].as = "video"

(* the callbacks of the transfer of m before the i-th that edited the status
   message *)
EditsBefore(m, i) == {j \in 1 .. (i - 1) : progress[m][j].edited}

(* C35: a progress callback edits the status message if and only if its
   current equals its total, or no callback of the transfer has edited yet,
   or at least 0.5 s have passed since the last edit of the transfer; so two
   edits of a transfer that are not completion edits are at least 0.5 s
   apart, and a callback with current = total always edits *)
C35_Throttle ==
    \A m \in Items : \A i \in 1 .. Len(progress[m]) :
        LET log == progress[m]
            earlier == EditsBefore(m, i)
            last == CHOOSE j \in earlier : \A k \in earlier : k <= j
        IN  /\ log[i].edited <=>
                  \/ log[i].current = log[i].total
                  \/ earlier = {}
                  \/ log[i].at - log[last].at >= THROTTLE
            /\ (log[i].edited /\ log[i].current # log[i].total) =>
                  \A j \in earlier :
                      log[j].current # log[j].total =>
                          log[i].at - log[j].at >= THROTTLE
            /\ log[i].current = log[i].total => log[i].edited

(* a transfer with an edit, a callback dropped less than 0.5 s later, an
   edit 0.5 s after the first, and a completion edit less than 0.5 s after
   that *)
C35_Witness ==
    \E m \in Items :
        /\ Len(progress[m]) = 4
        /\ progress[m][1].edited /\ progress[m][1].current # progress[m][1].total
        /\ ~progress[m][2].edited
        /\ progress[m][3].edited /\ progress[m][3].current # progress[m][3].total
        /\ progress[m][3].at = progress[m][1].at + THROTTLE
        /\ progress[m][4].edited /\ progress[m][4].current = progress[m][4].total
        /\ progress[m][4].at < progress[m][3].at + THROTTLE

(* C36: the name rendered for a message begins with the sanitized result of
   the substitution, or with "file" when that result is empty; when the
   extension is not empty and this base does not end with it, compared
   without regard to case, the name is the base followed by the extension,
   once; otherwise the name is the base *)
C36_FallbackAndExtension ==
    \A m \in Items :
        ppc[m] = "reply" =>
            LET ext == media_extension(media[m].kind, media[m].file_name)
                sanitized == sanitize_filename(
                    format_map(user_format[chat_id(m)], base_vars(m)).text)
                base == IF sanitized = <<>> THEN <<"f", "i", "l", "e">>
                        ELSE sanitized
                ends == /\ Len(base) >= Len(ext)
                        /\ \A k \in 1 .. Len(ext) :
                              lower(<<base[Len(base) - Len(ext) + k]>>)
                                  = lower(<<ext[k]>>)
            IN  /\ ext # <<>> /\ ~ends => new_name[m] = base \o ext
                /\ ext = <<>> \/ ends => new_name[m] = base

(* the template "a.X" was rendered for a file with the extension ".x" and
   the name has been left as "a.X" *)
C36_Witness ==
    /\ ppc[1] = "reply"
    /\ user_format[1] = <<"a", ".", "X">>
    /\ media[1].file_name = <<"f", ".", "x">>
    /\ new_name[1] = <<"a", ".", "X">>

(* C37: a media message of a user who is banned when it arrives changes
   neither task_queue nor the dispatcher flag and no dispatcher task is
   created for it: the message is never in the queue, never popped and has
   no pipeline; and /ban leaves the queue and the pipelines of the messages
   already there as they are *)
C37_BannedNotQueued ==
    /\ [](\A m \in Items :
            dtask[m] = "refused" =>
                /\ m \notin SeqItems(task_queue)
                /\ m \notin SeqItems(started)
                /\ ppc[m] = "absent")
    /\ [][/\ \A u \in Users :
               (enqueue_media(u) /\ is_banned(u)) =>
                   UNCHANGED <<task_queue, dispatcher_started, started, ppc>>
          /\ \A m \in Items : dtask[m] = "refused" => dtask'[m] = "refused"
          /\ \A u \in Users, t \in Users :
               cmd_ban(u, t) => UNCHANGED <<qvars, pvars>>]_vars

(* a message of a banned user was refused while a message the same user had
   sent before the ban has been popped by the dispatcher *)
C37_Witness ==
    \E m \in Items, o \in Items :
        /\ dtask[m] = "refused"
        /\ o < m /\ owner[o] = owner[m]
        /\ o \in SeqItems(started)
        /\ is_banned(owner[m])

(* the messages of q that are not in r *)
Removed(q, r) == SeqItems(q) \ SeqItems(r)

(* C38: a /clear or a click on "Clear All Queue" by a user who is not an
   admin removes no message of another user from task_queue; a confirmation
   keyboard appears only through the /clear of an admin; and a step of the
   clear commands that removes a message of somebody else than the caller is
   the confirmation by an admin of a keyboard that was shown *)
C38_OthersKept ==
    [][/\ \A u \in Users :
             ((cmd_clear(u) \/ clear_confirm(u)) /\ ~is_admin(u)) =>
                 \A m \in Removed(task_queue, task_queue') : owner[m] = u
       /\ (~clear_prompt /\ clear_prompt') =>
             \E u \in Users : is_admin(u) /\ cmd_clear(u)
       /\ \A u \in Users :
             ((cmd_clear(u) \/ clear_confirm(u))
                 /\ \E m \in Removed(task_queue, task_queue') : owner[m] # u) =>
                 is_admin(u) /\ clear_prompt /\ clear_confirm(u)
                     /\ task_queue' = <<>>]_vars

(* a user who is not an admin has cleared a queue that held a message of
   theirs and an earlier one of another user: the report says one file was
   removed and the other message is still in the queue *)
C38_Witness ==
    /\ clear_report = 1
    /\ \E m \in Items, o \in Items :
          /\ ppc[m] = "cleared" /\ ~is_admin(owner[m])
          /\ owner[o] # owner[m]
          /\ o < m
          /\ o \in SeqItems(task_queue)

(* C39: whatever /ban, /unban, /admins add and /admins remove commands have
   been sent, no user id is in admin_list and in banned_users at once, and
   ADMIN_ID is in admin_list *)
C39_AdminsNotBanned ==
    /\ admin_list \cap banned_users = {}
    /\ ADMIN_ID \in admin_list

TypeOK ==
    /\ semaphore \in 0 .. CONCURRENCY
    /\ arrived \in 0 .. limit
    /\ \A m \in Items : held[m] \in 0 .. MaxFloods + 1

====
